---- MODULE Spec2Model ----
(***************************************************************************)
(* Model of the stateless resource-lifecycle codec of lKingslayer/mock-test *)
(* (src/app/domain/paths.py, tokens.py, status.py) and of the service      *)
(* functions that call it (src/app/service/kb_service.py).                 *)
(*                                                                         *)
(* Strings are sequences of Unicode code points (naturals), so that        *)
(* strip(), replace(), re.sub(), startswith(), rstrip(), the regular       *)
(* expression and rpartition()/lower() are computed character by character *)
(* as Python computes them.                                                *)
(***************************************************************************)
EXTENDS Integers, Sequences, FiniteSets, TLC

VARIABLES
    n_path,     \* normalizer harness: the input string
    n_first,    \* normalize_resource_path(n_path)
    n_second,   \* normalize_resource_path(n_first.val)
    n_pc,       \* "start" | "once" | "twice" | "idle"
    t_kb_id,            \* codec harness: the arguments of encode_resource_token
    t_resource_path,
    t_created_at_ms,
    t_seed,
    t_issued,           \* what encode_resource_token returned or raised
    t_token,            \* the token handed to decode_resource_token
    t_payload,          \* what decode_resource_token returned or raised
    t_pc,               \* "start" | "issued" | "refused" | "received" |
                        \* "decoded_issued" | "decoded" | "idle"
    c_created_at_ms,    \* status harness: the fixed arguments of compute_status
    c_salt,
    c_failure_rate,
    c_now_ms,           \* now_ms of the latest call
    c_status,           \* what the latest call returned or raised
    c_prev_now_ms,      \* now_ms of the call before it
    c_prev,             \* what the call before it returned or raised
    c_calls,            \* number of calls made
    s_env_seed,         \* service: CI_RUN_SEED of the process
    s_env_failure_rate, \* service: FAILURE_RATE of the process
    s_now,              \* service: the wall clock, in ms
    s_ticks,            \* clock advances so far
    s_upload_kb_id,     \* kb_id of the one upload_resource call
    s_upload,           \* what that call returned or raised
    s_kb_id,            \* arguments of the latest list_children call
    s_ids,
    s_children,         \* what the latest list_children call returned or raised
    m_kb_id,            \* tamper harness: the arguments of encode_resource_token
    m_resource_path,
    m_created_at_ms,
    m_seed,
    m_issued,           \* the characters of the token that was issued
    m_change,           \* "none" | "flip" | "truncate": what was done to them
    m_token,            \* the characters handed to decode_resource_token
    m_payload,          \* what decode_resource_token returned or raised
    m_pc,               \* "start" | "issued" | "refused" | "decoded" | "idle"
    h_env_failure_rate, \* HTTP layer: FAILURE_RATE of the process
    h_now,              \* the wall clock, in ms
    h_kb_id,            \* the kb_id of the path of the request
    h_query,            \* the values of its ids query parameters
    h_ids,              \* the list monitor_children hands to list_children
    h_children,         \* what list_children returned or raised
    h_response,         \* what monitor_children returned or raised
    k_call,             \* concurrent calls: per task, the function and its arguments
    k_frame,            \* per task, the statement reached and the locals
    k_result,           \* per task, what the call returned or raised
    k_calls,            \* calls entered so far in the process
    p_env_failure_rate, \* polling runner: FAILURE_RATE of the service
    p_now,              \* the clock, in ms
    p_tokens,           \* tokens of _poll_until_terminal
    p_poll_interval,    \* poll_interval_s, in ms
    p_timeout,          \* timeout_s, in ms
    p_started,          \* started
    p_terminal_at,      \* terminal_at
    p_last_items,       \* last_items
    p_history,          \* the items of every poll performed, oldest first
    p_waits,            \* times a request was slow
    p_result,           \* what _poll_until_terminal returned or raised
    p_pc,               \* "check" | "poll" | "sleep" | "returned" | "raised" | "idle"
    r_op,               \* runner client: "create_kb" | "upload_one" | "poll_children"
    r_path,             \* upload_one: str(path)
    r_retries,          \* retries
    r_attempt,          \* iterations of `for attempt in range(retries)` begun
    r_outcomes,         \* the outcome of every request issued, oldest first
    r_last_err,         \* last_err
    r_result,           \* what the call returned or raised
    r_pc                \* "start" | "loop" | "returned" | "raised" | "idle"

nvars == <<n_path, n_first, n_second, n_pc>>
tvars == <<t_kb_id, t_resource_path, t_created_at_ms, t_seed, t_issued, t_token,
           t_payload, t_pc>>
cvars == <<c_created_at_ms, c_salt, c_failure_rate, c_now_ms, c_status, c_prev_now_ms,
           c_prev, c_calls>>
svars == <<s_env_seed, s_env_failure_rate, s_now, s_ticks, s_upload_kb_id, s_upload,
           s_kb_id, s_ids, s_children>>
mvars == <<m_kb_id, m_resource_path, m_created_at_ms, m_seed, m_issued, m_change,
           m_token, m_payload, m_pc>>
hvars == <<h_env_failure_rate, h_now, h_kb_id, h_query, h_ids, h_children, h_response>>
kvars == <<k_call, k_frame, k_result, k_calls>>
pvars == <<p_env_failure_rate, p_now, p_tokens, p_poll_interval, p_timeout, p_started,
           p_terminal_at, p_last_items, p_history, p_waits, p_result, p_pc>>
rvars == <<r_op, r_path, r_retries, r_attempt, r_outcomes, r_last_err, r_result, r_pc>>
vars == <<nvars, tvars, cvars, svars, mvars, hvars, kvars, pvars, rvars>>

(***************************************************************************)
(* Bounds of the model.                                                    *)
(***************************************************************************)
MaxPathLen == 4          \* longest string given to the normalizer alone
MaxTokenPathLen == 3     \* longest resource_path given to encode_resource_token
MaxRpLen == 2            \* longest "rp" of a token that was not issued here
MaxCalls == 4            \* calls of compute_status for one token
MaxIds == 2              \* ids in one list_children call
MaxTicks == 3            \* advances of the service clock
MaxDotPathLen == 5       \* longest string of dots, slashes, blanks and letters
MaxPieces == 2           \* comma-separated pieces of one ids query parameter
MaxTasks == 2            \* threads or coroutines that call the core at the same time
MaxEntered == 3          \* calls of the core they make between them
MaxPollTokens == 2       \* tokens polled by one _poll_until_terminal
MaxWaits == 1            \* slow requests during one _poll_until_terminal
MaxRetries == 3          \* largest `retries` given to a function of the client

\* Characters the enumerated paths are built from:
\*   10 "\n"   32 " "   46 "."   47 "/"   65 "A"   92 "\"   97 "a"   233 e-acute
PathChars == {10, 32, 46, 47, 65, 92, 97, 233}

RECURSIVE StringsUpTo(_, _)
StringsUpTo(chars, n) ==
    IF n = 0 THEN {<<>>}
    ELSE LET shorter == StringsUpTo(chars, n - 1)
         IN  shorter \cup {Append(s, c) : s \in {t \in shorter : Len(t) = n - 1}, c \in chars}

\* Longer paths are built from fewer characters:  " "  "."  "/"  "A"
DotPathChars == {32, 46, 47, 65}

Paths == StringsUpTo(PathChars, MaxPathLen) \cup StringsUpTo(DotPathChars, MaxDotPathLen)

(***************************************************************************)
(* Results of a function that may raise: ok, the value, or the exception   *)
(* class and its message.                                                  *)
(***************************************************************************)
Ok(v) == [ok |-> TRUE, val |-> v]
Raise(e, m) == [ok |-> FALSE, exc |-> e, msg |-> m]
NotCalled == [ok |-> FALSE, exc |-> "", msg |-> "not_called"]

(***************************************************************************)
(* src/app/domain/paths.py                                                 *)
(***************************************************************************)
\* str.isspace(): the characters str.strip() removes.
IsSpace(c) ==
    \/ c \in 9..13
    \/ c \in 28..32
    \/ c \in {133, 160, 5760, 8232, 8233, 8239, 8287, 12288}
    \/ c \in 8192..8202

RECURSIVE LStrip(_)
LStrip(s) == IF s # <<>> /\ IsSpace(Head(s)) THEN LStrip(Tail(s)) ELSE s

RECURSIVE RStrip(_)
RStrip(s) ==
    IF s # <<>> /\ IsSpace(s[Len(s)]) THEN RStrip(SubSeq(s, 1, Len(s) - 1)) ELSE s

\* path.strip()
Strip(s) == RStrip(LStrip(s))

\* a .replace that leaves every backslash in place
KeepBackslash(s) == s

\* .replace("\\", "/")
ReplaceBackslash(s) == [i \in 1..Len(s) |-> IF s[i] = 92 THEN 47 ELSE s[i]]

\* re.sub(r"/+", "/", p)
RECURSIVE CollapseSlashes(_)
CollapseSlashes(s) ==
    IF Len(s) < 2 THEN s
    ELSE IF s[1] = 47 /\ s[2] = 47 THEN CollapseSlashes(Tail(s))
    ELSE <<s[1]>> \o CollapseSlashes(Tail(s))

\* if p.startswith("./"): p = p[2:]
StripDotSlash(s) ==
    IF Len(s) >= 2 /\ s[1] = 46 /\ s[2] = 47 THEN SubSeq(s, 3, Len(s)) ELSE s

\* p.rstrip("/")
RECURSIVE RStripSlash(_)
RStripSlash(s) ==
    IF s # <<>> /\ s[Len(s)] = 47 THEN RStripSlash(SubSeq(s, 1, Len(s) - 1)) ELSE s

\* _VALID_PATH_RE = re.compile(r"^[ -~]+$"), used with .match(): one or more
\* characters of 0x20..0x7E, then the end of the string; "$" also matches
\* just before a newline that ends the string.
ValidPathReMatch(p) ==
    LET body == IF p # <<>> /\ p[Len(p)] = 10 THEN SubSeq(p, 1, Len(p) - 1) ELSE p
    IN  /\ body # <<>>
        /\ \A i \in 1..Len(body) : body[i] \in 32..126

\* str.lower() on the characters that can pass the regular expression.
LowerChar(c) == IF c \in 65..90 THEN c + 32 ELSE c
Lower(s) == [i \in 1..Len(s) |-> LowerChar(s[i])]

\* index of the last "." of p, 0 when there is none (p.rpartition("."))
LastDot(p) ==
    LET dots == {i \in 1..Len(p) : p[i] = 46}
    IN  IF dots = {} THEN 0 ELSE CHOOSE i \in dots : \A j \in dots : j <= i

\* head, dot, ext = p.rpartition("."); if dot: p = f"{head}.{ext.lower()}"
LowerExtension(p) ==
    LET d == LastDot(p)
    IN  IF d = 0 THEN p
        ELSE SubSeq(p, 1, d - 1) \o <<46>> \o Lower(SubSeq(p, d + 1, Len(p)))

normalize_resource_path(path) ==
    IF path = <<>> THEN Raise("ValueError", "resource_path must be a non-empty string")
    ELSE LET p == RStripSlash(StripDotSlash(CollapseSlashes(ReplaceBackslash(Strip(path)))))
         IN  IF p = <<>>
             THEN Raise("ValueError", "resource_path resolves to empty after normalization")
             ELSE IF ~ValidPathReMatch(p)
             THEN Raise("ValueError", "resource_path contains invalid characters")
             ELSE Ok(LowerExtension(p))

(***************************************************************************)
(* Integers wider than the checker's native ones.  A 64-bit salt, and the  *)
(* values 2^64 * x of the floats x that status.py compares, are natural    *)
(* numbers below 2^80 written as five 16-bit limbs, most significant       *)
(* first.  A Python int is a sign and such a magnitude.                    *)
(***************************************************************************)
LimbBase == 2^16
Limbs == 1..5

Big(a, b, c, d, e) == <<a, b, c, d, e>>
BigOfNat(n) == <<0, 0, 0, n \div LimbBase, n % LimbBase>>      \* 0 <= n < 2^31
BigZero == BigOfNat(0)
BigLess(x, y) == \E i \in Limbs : x[i] < y[i] /\ \A j \in 1..(i - 1) : x[j] = y[j]
BigLeq(x, y) == x = y \/ BigLess(x, y)

\* x + k for 0 <= k < 2^16, carried through the limbs.
RECURSIVE BigCarry(_, _, _)
BigCarry(x, i, k) ==
    IF i = 0 \/ k = 0 THEN x
    ELSE LET s == x[i] + k
         IN  BigCarry([x EXCEPT ![i] = s % LimbBase], i - 1, s \div LimbBase)
BigAddSmall(x, k) == BigCarry(x, 5, k)

\* bits of the significand of a Python float (IEEE 754 binary64)
MantissaBits == 53


\* number of bits of a limb: 0 for 0, 16 for 2^15 .. 2^16-1
BitLen(n) == CHOOSE k \in 0..16 : n < 2^k /\ (k = 0 \/ n >= 2^(k - 1))

\* The float nearest to x / 2^64, times 2^64, for 0 <= x < 2^64: int / int is
\* correctly rounded, to nearest and to even on a tie.  x has 48 + BitLen(x[2])
\* bits when its top limb x[2] is not zero; the bits beyond MantissaBits are
\* rounded away, and they all lie in the last limb.
RoundToFloat(x) ==
    LET bits == IF x[2] = 0 THEN 0 ELSE 48 + BitLen(x[2])
        drop == IF bits > MantissaBits THEN bits - MantissaBits ELSE 0
        unit == 2^drop
        low  == x[5] % unit
        kept == [x EXCEPT ![5] = x[5] - low]
        odd  == (x[5] \div unit) % 2 = 1
        up   == drop > 0 /\ (2 * low > unit \/ (2 * low = unit /\ odd))
    IN  IF up THEN BigAddSmall(kept, unit) ELSE kept

IsDigit(c) == c \in 48..57

\* A number longer than the limbs hold lies outside the model: evaluating
\* this is an error of the check, never a result.
OutOfModel == CHOOSE x \in {} : TRUE

\* 10 * x + d on the limbs, with the carry out of the top limb in front
BigMul10Add(x, d) ==
    LET c5 == x[5] * 10 + d
        c4 == x[4] * 10 + c5 \div LimbBase
        c3 == x[3] * 10 + c4 \div LimbBase
        c2 == x[2] * 10 + c3 \div LimbBase
        c1 == x[1] * 10 + c2 \div LimbBase
    IN  <<c1 \div LimbBase, c1 % LimbBase, c2 % LimbBase, c3 % LimbBase,
          c4 % LimbBase, c5 % LimbBase>>
\* int(digits) for characters "0".."9", after acc; a number the limbs do not
\* hold is outside the model
RECURSIVE BigOfDigits(_, _)
BigOfDigits(ds, acc) ==
    IF ds = <<>> THEN acc
    ELSE LET next == BigMul10Add(acc, Head(ds) - 48)
         IN  IF next[1] # 0 THEN OutOfModel ELSE BigOfDigits(Tail(ds), Tail(next))

RECURSIVE StripZeros(_)
StripZeros(ds) == IF ds # <<>> /\ Head(ds) = 0 THEN StripZeros(Tail(ds)) ELSE ds

\* 2 * x on the limbs (x < 2^79)
BigDouble(x) ==
    LET c5 == x[5] * 2
        c4 == x[4] * 2 + c5 \div LimbBase
        c3 == x[3] * 2 + c4 \div LimbBase
        c2 == x[2] * 2 + c3 \div LimbBase
        c1 == x[1] * 2 + c2 \div LimbBase
    IN  <<c1 % LimbBase, c2 % LimbBase, c3 % LimbBase, c4 % LimbBase, c5 % LimbBase>>

\* x - y on the limbs, for y <= x
BigSub(x, y) ==
    LET d5 == x[5] - y[5]
        d4 == x[4] - y[4] - (IF d5 < 0 THEN 1 ELSE 0)
        d3 == x[3] - y[3] - (IF d4 < 0 THEN 1 ELSE 0)
        d2 == x[2] - y[2] - (IF d3 < 0 THEN 1 ELSE 0)
        d1 == x[1] - y[1] - (IF d2 < 0 THEN 1 ELSE 0)
    IN  <<d1 % LimbBase, d2 % LimbBase, d3 % LimbBase, d4 % LimbBase, d5 % LimbBase>>

\* x \div 10 and x % 10 on the limbs
BigDivMod10(x) ==
    LET c1 == x[1]
        c2 == (c1 % 10) * LimbBase + x[2]
        c3 == (c2 % 10) * LimbBase + x[3]
        c4 == (c3 % 10) * LimbBase + x[4]
        c5 == (c4 % 10) * LimbBase + x[5]
    IN  [quot |-> <<c1 \div 10, c2 \div 10, c3 \div 10, c4 \div 10, c5 \div 10>>,
         rem |-> c5 % 10]

\* str(x): the decimal digits of x as characters
RECURSIVE BigDecimal(_)
BigDecimal(x) ==
    LET qr == BigDivMod10(x)
    IN  IF qr.quot = BigZero THEN <<48 + qr.rem>>
        ELSE Append(BigDecimal(qr.quot), 48 + qr.rem)

\* number of bits of x < 2^64
BigBitLen(x) ==
    IF x[2] # 0 THEN 48 + BitLen(x[2])
    ELSE IF x[3] # 0 THEN 32 + BitLen(x[3])
    ELSE IF x[4] # 0 THEN 16 + BitLen(x[4])
    ELSE BitLen(x[5])

PyInt(neg, mag) == [neg |-> neg, mag |-> mag]
PyNat(n) == PyInt(FALSE, BigOfNat(n))
PyNeg(n) == PyInt(TRUE, BigOfNat(n))
\* the value of a Python int of magnitude below 2^31 as a native integer
IntOf(x) ==
    LET m == x.mag[4] * LimbBase + x.mag[5]
    IN  IF x.mag[1] # 0 \/ x.mag[2] # 0 \/ x.mag[3] # 0 \/ x.mag[4] >= 32768
        THEN OutOfModel
        ELSE IF x.neg THEN 0 - m ELSE m
PyIntOf(n) == IF n < 0 THEN PyNeg(0 - n) ELSE PyNat(n)

\* tokens.py:25
TOKEN_VERSION == 1
\* tokens.py:26, status.py:16:  (1 << 64) - 1
UINT64_MAX == Big(0, 65535, 65535, 65535, 65535)
Two64 == Big(1, 0, 0, 0, 0)

\* x & _UINT64_MAX for a non-negative x
MaskU64(x) == [x EXCEPT ![1] = 0]

(***************************************************************************)
(* Text helpers of tokens.py: str(int), str.encode()                       *)
(***************************************************************************)
RECURSIVE Digits(_)
Digits(n) == IF n < 10 THEN <<48 + n>> ELSE Digits(n \div 10) \o <<48 + (n % 10)>>

\* f"{seed}" for a native integer
Decimal(n) == IF n < 0 THEN <<45>> \o Digits(0 - n) ELSE Digits(n)

\* UTF-8 bytes of one code point (no surrogate is enumerated)
Utf8Char(c) ==
    IF c < 128 THEN <<c>>
    ELSE IF c < 2048 THEN <<192 + (c \div 64), 128 + (c % 64)>>
    ELSE IF c < 65536 THEN <<224 + (c \div 4096), 128 + ((c \div 64) % 64), 128 + (c % 64)>>
    ELSE <<240 + (c \div 262144), 128 + ((c \div 4096) % 64),
           128 + ((c \div 64) % 64), 128 + (c % 64)>>

RECURSIVE Utf8(_)
Utf8(s) == IF s = <<>> THEN <<>> ELSE Utf8Char(Head(s)) \o Utf8(Tail(s))

(***************************************************************************)
(* src/app/domain/tokens.py                                                *)
(***************************************************************************)
\* The last 8 bytes of the BLAKE2b-128 digest of data, little-endian.  The
\* digest itself is not computed here: a fixed mixing function of the bytes
\* stands for it, which keeps what the callers rely on (a value in
\* 0 .. 2^64-1 that depends on nothing but the bytes).
RECURSIVE HashFold(_, _)
HashFold(data, acc) ==
    IF data = <<>> THEN acc
    ELSE HashFold(Tail(data),
                  [k \in 1..4 |->
                      (acc[k] * 33 + Head(data) * k + acc[(k % 4) + 1]) % LimbBase])

hash64(data) == <<0>> \o HashFold(data, <<27145, 48999, 15470, 42298>>)

\* a derive_salt that mixes a process-wide call counter into the salt
derive_salt_counted(seed, kb_id, resource_path) ==
    MaskU64(hash64(Utf8(Decimal(seed + k_calls) \o <<124>> \o kb_id \o <<124>>
                        \o resource_path)))

\* payload = f"{seed}|{kb_id}|{resource_path}".encode(); _hash64(payload) & _UINT64_MAX
derive_salt(seed, kb_id, resource_path) ==
    MaskU64(hash64(Utf8(Decimal(seed) \o <<124>> \o kb_id \o <<124>> \o resource_path)))

\* JSON values that a token's object may hold under a key.
JMissing == [t |-> "missing"]
JNull == [t |-> "null"]
JNum(x) == [t |-> "num", n |-> x]
JStr(s) == [t |-> "str", s |-> s]

JBool(b) == [t |-> "bool", b |-> b]
\* a float literal: sign, the digits of integer and fraction part without
\* leading zeros (values 0..9), and the power of ten that scales them
JFloat(neg, digits, exp10) == [t |-> "float", neg |-> neg, digits |-> digits, exp10 |-> exp10]
\* NaN, Infinity, -Infinity
JNonFinite == [t |-> "nonfinite"]
JArray == [t |-> "array"]
JDict(obj) == [t |-> "object", obj |-> obj]

JObject(ver, kb_id, rp, ca_ms, salt) ==
    [ver |-> ver, kb_id |-> kb_id, rp |-> rp, ca_ms |-> ca_ms, salt |-> salt]

\* the keys of TokenPayload looked up in a dict that has none of them
EmptyDict == JObject(JMissing, JMissing, JMissing, JMissing, JMissing)

\* A token string, by what its characters decode to:
\*   "not_base64"  not ASCII, or rejected by base64.urlsafe_b64decode
\*   "not_json"    base64 of bytes that are not UTF-8 JSON text
\*   "not_object"  base64 of JSON text of an array, number, string or literal
\*   "object"      base64 of JSON text of an object with the keys of obj
\* obj is <<>> where the token holds no object.
Token(layer, obj) == [layer |-> layer, obj |-> obj]

Payload(ver, kb_id, rp, ca_ms, salt) ==
    [ver |-> ver, kb_id |-> kb_id, rp |-> rp, ca_ms |-> ca_ms, salt |-> salt]
NoToken == Token("none", <<>>)

(***************************************************************************)
(* float(literal) followed by pydantic's conversion of a float to an int:   *)
(* the float nearest to digits * 10^exp10 must be finite, integral and in   *)
(* the range of a signed 64-bit integer.                                    *)
(***************************************************************************)
ErrorKind == [kind |-> "error"]
\* mag is the magnitude of an integral float
IntKind(neg, mag) ==
    IF mag[1] # 0 \/ (mag[2] >= 32768 /\ ~(neg /\ mag = <<0, 32768, 0, 0, 0>>))
    THEN ErrorKind
    ELSE [kind |-> "int", n |-> PyInt(neg /\ mag # BigZero, mag)]
\* an integral float of 2^64 or more, or an infinite one
HugeKind == ErrorKind

DigitChars(ds) == [i \in 1..Len(ds) |-> ds[i] + 48]
Zeros(n) == [i \in 1..n |-> 0]
\* the integer with the decimal digits ds (values 0..9), at most 23 of them
BigOfDigitValues(ds) == BigOfDigits(DigitChars(ds), BigZero)

\* x rounded to MantissaBits bits when a non-zero fraction follows it, for
\* 2^53 <= x < 2^64: the fraction breaks the tie upward
RoundInexact(x) ==
    LET drop == BigBitLen(x) - MantissaBits
        unit == 2^drop
        low  == x[5] % unit
        kept == [x EXCEPT ![5] = x[5] - low]
    IN  IF 2 * low >= unit THEN BigAddSmall(kept, unit) ELSE kept

\* the sign of x * 2^j - t, for x <= t < 2^78
RECURSIVE CmpScaled(_, _, _)
CmpScaled(x, j, t) ==
    IF BigLess(t, x) THEN 1
    ELSE IF j = 0 THEN (IF x = t THEN 0 ELSE 0 - 1)
    ELSE CmpScaled(BigDouble(x), j - 1, t)

\* float of the integer with digits ds
FloatOfInteger(neg, ds) ==
    IF Len(ds) > 20 THEN HugeKind
    ELSE LET v == BigOfDigitValues(ds)
         IN  IF v[1] # 0 THEN HugeKind ELSE IntKind(neg, RoundToFloat(v))

\* the float nearest to Q + R/T, for an integer Q of b bits, b < 54, and
\* 0 < R < T: down and up are the signs of R/T - 2^-j and (1 - R/T) - 2^-j,
\* where 2^-j is half the distance of the floats around Q
FractionPick(neg, Q, b, down, up) ==
    IF b = 53
    THEN (IF down < 0 \/ (down = 0 /\ Q[5] % 2 = 0) THEN IntKind(neg, Q)
          ELSE IntKind(neg, BigAddSmall(Q, 1)))
    ELSE IF b >= 1
    THEN (IF down <= 0 THEN IntKind(neg, Q)
          ELSE IF up <= 0 THEN IntKind(neg, BigAddSmall(Q, 1))
          ELSE ErrorKind)
    ELSE IF up <= 0 THEN IntKind(neg, BigAddSmall(Q, 1))
    ELSE ErrorKind
FractionNearest(neg, Q, R, T, b) ==
    IF b >= 54 THEN IntKind(neg, RoundInexact(Q))
    ELSE FractionPick(neg, Q, b,
                      CmpScaled(R, IF b = 53 THEN 1 ELSE 54 - b, T),
                      CmpScaled(BigSub(T, R), IF b = 53 THEN 1 ELSE 54 - b, T))
FractionRounded(neg, Q, R, T) ==
    IF Q[1] # 0 THEN HugeKind ELSE FractionNearest(neg, Q, R, T, BigBitLen(Q))
\* float of q + 0.frac for digits q (no leading zero) and frac (not all zero)
FloatOfFraction(neg, q, frac) ==
    IF Len(q) > 20 THEN HugeKind
    ELSE FractionRounded(neg, BigOfDigitValues(q), BigOfDigitValues(frac),
                         BigOfDigitValues(<<1>> \o Zeros(Len(frac))))

\* digits * 10^-d for n digits
FloatSplit(neg, digits, n, d) ==
    IF n = 0 THEN IntKind(FALSE, BigZero)
    ELSE IF d <= 0 \/ (n > d /\ \A i \in (n - d + 1)..n : digits[i] = 0)
    THEN FloatOfInteger(neg, IF d <= 0 THEN digits \o Zeros(0 - d)
                             ELSE SubSeq(digits, 1, n - d))
    ELSE IF d - n >= 324 THEN IntKind(FALSE, BigZero)          \* underflow to 0.0
    ELSE IF d - n = 323 \/ (n >= d /\ d > 23) THEN OutOfModel
    ELSE IF d > 23 THEN ErrorKind                               \* 0 < value < 0.1
    ELSE FloatOfFraction(neg,
                         IF n > d THEN SubSeq(digits, 1, n - d) ELSE <<>>,
                         IF n > d THEN SubSeq(digits, n - d + 1, n)
                         ELSE Zeros(d - n) \o digits)
FloatAsInt(f) == FloatSplit(f.neg, f.digits, Len(f.digits), 0 - f.exp10)

\* pydantic's validation of a value for a field declared int (lax mode): an
\* int is taken as it is, a bool as 0 or 1, a float when it is finite and
\* integral.  A str is converted when it spells a number; that conversion is
\* outside the model, so only a str without a digit is decided here.
IntValue(j) ==
    IF j.t = "num" THEN [kind |-> "int", n |-> j.n]
    ELSE IF j.t = "bool" THEN IntKind(FALSE, BigOfNat(IF j.b THEN 1 ELSE 0))
    ELSE IF j.t = "float" THEN FloatAsInt(j)
    ELSE IF j.t = "str" /\ \E i \in 1..Len(j.s) : IsDigit(j.s[i]) THEN OutOfModel
    ELSE ErrorKind

\* a field declared int without bounds (ca_ms), for the converted value v
IntFieldOk(v) == v.kind = "int"
IntField(v) == v.n
\* a field declared str: nothing is converted to a str.  A str with a lone
\* surrogate is outside the model.
StrFieldOk(j) ==
    /\ j.t = "str"
    /\ IF \E i \in 1..Len(j.s) : j.s[i] \in 55296..57343 THEN OutOfModel ELSE TRUE

\* Field(..., ge=lo, le=hi)
InRange(x, lo, hi) ==
    /\ ~(x.neg /\ x.mag # BigZero)
    /\ BigLeq(lo, x.mag)
    /\ BigLeq(x.mag, hi)

\* ver: int = Field(..., ge=1, le=1)
VerFieldOk(v) == v.kind = "int" /\ InRange(v.n, BigOfNat(1), BigOfNat(1))
\* salt: int = Field(..., ge=0, le=_UINT64_MAX)
SaltFieldOk(v) == v.kind = "int" /\ InRange(v.n, BigZero, UINT64_MAX)

\* the model of the fields, for the converted values of the int fields
ValidatedPayload(data, ver, ca_ms, salt) ==
    IF /\ VerFieldOk(ver)
       /\ StrFieldOk(data.kb_id)
       /\ StrFieldOk(data.rp)
       /\ IntFieldOk(ca_ms)
       /\ SaltFieldOk(salt)
    THEN Ok(Payload(IntOf(IntField(ver)), data.kb_id.s, data.rp.s,
                     IntOf(IntField(ca_ms)), IntField(salt).mag))
    ELSE Raise("ValidationError", "validation error for TokenPayload")
\* TokenPayload constructed from the keys of a mapping data
TokenPayload(data) ==
    ValidatedPayload(data, IntValue(data.ver), IntValue(data.ca_ms), IntValue(data.salt))

\* base64.urlsafe_b64encode(json.dumps(payload.model_dump(), ...).encode("utf-8"))
Serialize(p) ==
    Token("object", JObject(JNum(PyIntOf(p.ver)), JStr(p.kb_id), JStr(p.rp),
                            JNum(PyIntOf(p.ca_ms)), JNum(PyInt(FALSE, p.salt))))

(***************************************************************************)
(* The characters of a token: base64 (RFC 4648, URL-safe alphabet) over     *)
(* UTF-8 over JSON text.  base64.urlsafe_b64encode, and                     *)
(* base64.urlsafe_b64decode, which is binascii.a2b_base64 without           *)
(* validation after "-" and "_" were rewritten to "+" and "/".              *)
(***************************************************************************)
\* the character of the URL-safe alphabet for a six-bit value
B64Char(v) ==
    IF v < 26 THEN 65 + v
    ELSE IF v < 52 THEN 97 + (v - 26)
    ELSE IF v < 62 THEN 48 + (v - 52)
    ELSE IF v = 62 THEN 45 ELSE 95

\* the six-bit value of a character for the decoder, 64 when it has none:
\* "+" and "-" are 62, "/" and "_" are 63
B64Value(c) ==
    IF c \in 65..90 THEN c - 65
    ELSE IF c \in 97..122 THEN c - 97 + 26
    ELSE IF c \in 48..57 THEN c - 48 + 52
    ELSE IF c \in {43, 45} THEN 62
    ELSE IF c \in {47, 95} THEN 63
    ELSE 64

\* base64.urlsafe_b64encode(raw).decode("ascii"): three bytes give four
\* characters, and "=" fills the last group
ByteAt(raw, i) == IF i <= Len(raw) THEN raw[i] ELSE 0
urlsafe_b64encode(raw) ==
    [p \in 1..(4 * ((Len(raw) + 2) \div 3)) |->
        LET g == (p - 1) \div 4
            r == (p - 1) % 4
            b0 == ByteAt(raw, 3 * g + 1)
            b1 == ByteAt(raw, 3 * g + 2)
            b2 == ByteAt(raw, 3 * g + 3)
        IN  IF r = 0 THEN B64Char(b0 \div 4)
            ELSE IF r = 1 THEN B64Char((b0 % 4) * 16 + b1 \div 16)
            ELSE IF r = 2
            THEN (IF 3 * g + 2 > Len(raw) THEN 61 ELSE B64Char((b1 % 16) * 4 + b2 \div 64))
            ELSE (IF 3 * g + 3 > Len(raw) THEN 61 ELSE B64Char(b2 % 64))]

IsB64OrPad(c) == c = 61 \/ B64Value(c) < 64
IsB64(c) == B64Value(c) < 64
\* the least member of a non-empty set of integers
Least(S) == CHOOSE i \in S : \A j \in S : i <= j

\* binascii.a2b_base64 without validation.  Its loop skips every character
\* outside the alphabet; it keeps quad_pos, the count of data characters
\* read modulo four, and pads, the count of "=" since the last data
\* character; a "=" ends the input when quad_pos >= 2 and quad_pos + pads
\* >= 4; at the end of the input quad_pos = 1 or quad_pos >= 2 is an error.
\* Here the same result is told from the positions instead of by the loop.
QuadPos(d, i) == Cardinality({k \in 1..(i - 1) : d[k] # 61}) % 4
Pads(d, i) == Cardinality({k \in 1..i : \A m \in k..i : d[m] = 61})
\* the bytes of the data characters, or the error of an incomplete quantum
\* when no "=" ended the input (open)
A2bBytes(data, open) ==
    IF open /\ Len(data) % 4 = 1
    THEN Raise("binascii.Error", "Invalid base64-encoded string")
    ELSE IF open /\ Len(data) % 4 >= 2
    THEN Raise("binascii.Error", "Incorrect padding")
    ELSE Ok([b \in 1..((Len(data) \div 4) * 3 + ((Len(data) % 4) * 3) \div 4) |->
               LET g == 4 * ((b - 1) \div 3)
                   r == (b - 1) % 3
               IN  IF r = 0
                   THEN B64Value(data[g + 1]) * 4 + B64Value(data[g + 2]) \div 16
                   ELSE IF r = 1
                   THEN (B64Value(data[g + 2]) % 16) * 16 + B64Value(data[g + 3]) \div 4
                   ELSE (B64Value(data[g + 3]) % 4) * 64 + B64Value(data[g + 4])])
\* d: the characters the loop does not skip; stops: the "=" that end the input
A2bRead(d, stops) ==
    A2bBytes(SelectSeq(IF stops = {} THEN d ELSE SubSeq(d, 1, Least(stops) - 1), IsB64),
             stops = {})
A2bStops(d) ==
    A2bRead(d, {i \in 1..Len(d) :
                   d[i] = 61 /\ QuadPos(d, i) >= 2 /\ QuadPos(d, i) + Pads(d, i) >= 4})
A2bBase64(s) == A2bStops(SelectSeq(s, IsB64OrPad))

\* base64.urlsafe_b64decode(token.encode("ascii")): encode("ascii") fails on
\* a character above 127
urlsafe_b64decode(token) ==
    IF \E i \in 1..Len(token) : token[i] > 127
    THEN Raise("UnicodeEncodeError", "'ascii' codec can't encode character")
    ELSE A2bBase64(token)

\* raw.decode("utf-8"), strict: the code points of the bytes from i on, after
\* out; Raise on a byte sequence that is not UTF-8.  A run of ASCII bytes is
\* taken in one step.
IsCont(raw, i, lo, hi) == i <= Len(raw) /\ raw[i] >= lo /\ raw[i] <= hi
RECURSIVE Utf8DecodeFrom(_, _, _)
Utf8DecodeFrom(raw, i, out) ==
    LET high == {k \in i..Len(raw) : raw[k] >= 128}
    IN  IF high = {} THEN Ok(out \o SubSeq(raw, i, Len(raw)))
        ELSE LET j == Least(high)
                 b == raw[j]
                 sofar == out \o SubSeq(raw, i, j - 1)
             IN  IF b \in 194..223 /\ IsCont(raw, j + 1, 128, 191)
                 THEN Utf8DecodeFrom(raw, j + 2,
                          Append(sofar, (b - 192) * 64 + (raw[j + 1] - 128)))
                 ELSE IF /\ b \in 224..239
                         /\ IsCont(raw, j + 1, IF b = 224 THEN 160 ELSE 128,
                                               IF b = 237 THEN 159 ELSE 191)
                         /\ IsCont(raw, j + 2, 128, 191)
                 THEN Utf8DecodeFrom(raw, j + 3,
                          Append(sofar, (b - 224) * 4096 + (raw[j + 1] - 128) * 64
                                        + (raw[j + 2] - 128)))
                 ELSE IF /\ b \in 240..244
                         /\ IsCont(raw, j + 1, IF b = 240 THEN 144 ELSE 128,
                                               IF b = 244 THEN 143 ELSE 191)
                         /\ IsCont(raw, j + 2, 128, 191)
                         /\ IsCont(raw, j + 3, 128, 191)
                 THEN Utf8DecodeFrom(raw, j + 4,
                          Append(sofar, (b - 240) * 262144 + (raw[j + 1] - 128) * 4096
                                        + (raw[j + 2] - 128) * 64 + (raw[j + 3] - 128)))
                 ELSE Raise("UnicodeDecodeError", "'utf-8' codec can't decode byte")
Utf8Decode(raw) == Utf8DecodeFrom(raw, 1, <<>>)

(***************************************************************************)
(* json.loads of the C scanner (json.decoder, _json.c), strict.  A parse    *)
(* gives Ok([end |-> index after the value, v |-> the value]).              *)
(***************************************************************************)
JsonError == Raise("JSONDecodeError", "Expecting value")
Parsed(end, v) == Ok([end |-> end, v |-> v])

IsJsonWs(c) == c \in {32, 9, 10, 13}
\* the first index from i on whose character is not whitespace (not a
\* digit), Len(s) + 1 when there is none
SkipWs(s, i) == Least({k \in i..Len(s) : ~IsJsonWs(s[k])} \cup {Len(s) + 1})
DigitsEnd(s, i) == Least({k \in i..Len(s) : ~IsDigit(s[k])} \cup {Len(s) + 1})
\* s holds the characters lit from index i on
HasAt(s, i, lit) == i + Len(lit) - 1 <= Len(s) /\ SubSeq(s, i, i + Len(lit) - 1) = lit

\* the exponent of a float literal, cut off at 99999 (10^99999 is infinite
\* for every non-zero mantissa, 10^-99999 is zero)
RECURSIVE SmallOfDigits(_, _)
SmallOfDigits(ds, acc) ==
    IF ds = <<>> THEN acc
    ELSE LET n == acc * 10 + (Head(ds) - 48)
         IN  SmallOfDigits(Tail(ds), IF n > 99999 THEN 99999 ELSE n)

\* _match_number_unicode: -?(0|[1-9][0-9]*)(\.[0-9]+)?([eE][-+]?[0-9]+)?
DigitValues(ds) == [k \in 1..Len(ds) |-> ds[k] - 48]
ParsedInt(end, neg, mag) == Parsed(end, JNum(PyInt(neg /\ mag # BigZero, mag)))
\* the integer part is s[j .. intEnd-1], the fraction s[intEnd+1 .. fracEnd-1]
\* (none when fracEnd = intEnd), exp the exponent when isExp
NumberOf(s, neg, j, intEnd, fracEnd, isExp, exp, end) ==
    IF fracEnd > intEnd \/ isExp
    THEN Parsed(end,
                JFloat(neg,
                       StripZeros(DigitValues(SubSeq(s, j, intEnd - 1)
                                              \o SubSeq(s, intEnd + 1, fracEnd - 1))),
                       exp - (IF fracEnd > intEnd THEN fracEnd - intEnd - 1 ELSE 0)))
    ELSE ParsedInt(end, neg, BigOfDigits(SubSeq(s, j, intEnd - 1), BigZero))
ScanExpEnd(s, neg, j, intEnd, fracEnd, expStart, expEnd) ==
    IF expEnd > expStart
    THEN NumberOf(s, neg, j, intEnd, fracEnd, TRUE,
                  (IF s[expStart - 1] = 45 THEN 0 - 1 ELSE 1)
                      * SmallOfDigits(SubSeq(s, expStart, expEnd - 1), 0),
                  expEnd)
    ELSE NumberOf(s, neg, j, intEnd, fracEnd, FALSE, 0, fracEnd)
ScanExpDigits(s, neg, j, intEnd, fracEnd, expStart) ==
    ScanExpEnd(s, neg, j, intEnd, fracEnd, expStart, DigitsEnd(s, expStart))
ScanExponent(s, neg, j, intEnd, fracEnd) ==
    IF fracEnd < Len(s) /\ s[fracEnd] \in {101, 69}
    THEN ScanExpDigits(s, neg, j, intEnd, fracEnd,
                       IF fracEnd + 1 < Len(s) /\ s[fracEnd + 1] \in {43, 45}
                       THEN fracEnd + 2 ELSE fracEnd + 1)
    ELSE NumberOf(s, neg, j, intEnd, fracEnd, FALSE, 0, fracEnd)
ScanFraction(s, neg, j, intEnd) ==
    ScanExponent(s, neg, j, intEnd,
                 IF intEnd < Len(s) /\ s[intEnd] = 46 /\ IsDigit(s[intEnd + 1])
                 THEN DigitsEnd(s, intEnd + 1) ELSE intEnd)
ScanInteger(s, neg, j) ==
    IF j > Len(s) \/ ~IsDigit(s[j]) THEN JsonError
    ELSE ScanFraction(s, neg, j, IF s[j] = 48 THEN j + 1 ELSE DigitsEnd(s, j))
ScanNumber(s, i) ==
    IF s[i] = 45 THEN ScanInteger(s, TRUE, i + 1) ELSE ScanInteger(s, FALSE, i)

HexValue(c) ==
    IF c \in 48..57 THEN c - 48
    ELSE IF c \in 97..102 THEN c - 87
    ELSE IF c \in 65..70 THEN c - 55
    ELSE 16
\* the four hexadecimal digits at i, or -1
Hex4(s, i) ==
    IF i + 3 <= Len(s) /\ \A k \in 0..3 : HexValue(s[i + k]) < 16
    THEN HexValue(s[i]) * 4096 + HexValue(s[i + 1]) * 256
         + HexValue(s[i + 2]) * 16 + HexValue(s[i + 3])
    ELSE 0 - 1

\* scanstring from index i0, after the opening quote, with out0 read so far;
\* the characters up to the next quote, backslash or control character, at
\* index i, are taken in one step
RECURSIVE ScanString(_, _, _)
\* the escape \uXXXX at i with value hi, and lo the value of a \uXXXX after it
ScanUnicode(s, i, out, hi, lo) ==
    IF hi \in 55296..56319 /\ lo \in 56320..57343
    THEN ScanString(s, i + 12, Append(out, 65536 + (hi - 55296) * 1024 + (lo - 56320)))
    ELSE ScanString(s, i + 6, Append(out, hi))
ScanEscape(s, i, out, c) ==
    IF c \in {34, 92, 47} THEN ScanString(s, i + 2, Append(out, c))
    ELSE IF c = 98 THEN ScanString(s, i + 2, Append(out, 8))
    ELSE IF c = 102 THEN ScanString(s, i + 2, Append(out, 12))
    ELSE IF c = 110 THEN ScanString(s, i + 2, Append(out, 10))
    ELSE IF c = 114 THEN ScanString(s, i + 2, Append(out, 13))
    ELSE IF c = 116 THEN ScanString(s, i + 2, Append(out, 9))
    ELSE IF c = 117 /\ Hex4(s, i + 2) >= 0
    THEN ScanUnicode(s, i, out, Hex4(s, i + 2),
                     IF HasAt(s, i + 6, <<92, 117>>) THEN Hex4(s, i + 8) ELSE 0 - 1)
    ELSE Raise("JSONDecodeError", "Invalid \\escape")
ScanStringAt(s, i, out) ==
    IF i > Len(s) THEN Raise("JSONDecodeError", "Unterminated string")
    ELSE IF s[i] = 34 THEN Parsed(i + 1, out)
    ELSE IF s[i] < 32 THEN Raise("JSONDecodeError", "Invalid control character")
    ELSE IF i + 1 > Len(s) THEN Raise("JSONDecodeError", "Unterminated string")
    ELSE ScanEscape(s, i, out, s[i + 1])
ScanStringRun(s, i0, out0, i) == ScanStringAt(s, i, out0 \o SubSeq(s, i0, i - 1))
ScanString(s, i0, out0) ==
    ScanStringRun(s, i0, out0,
        Least({k \in i0..Len(s) : s[k] \in {34, 92} \/ s[k] < 32} \cup {Len(s) + 1}))

\* dict[key] = v for the keys TokenPayload reads; other keys are not kept
SetKey(obj, key, v) ==
    IF key = <<118, 101, 114>> THEN [obj EXCEPT !.ver = v]
    ELSE IF key = <<107, 98, 95, 105, 100>> THEN [obj EXCEPT !.kb_id = v]
    ELSE IF key = <<114, 112>> THEN [obj EXCEPT !.rp = v]
    ELSE IF key = <<99, 97, 95, 109, 115>> THEN [obj EXCEPT !.ca_ms = v]
    ELSE IF key = <<115, 97, 108, 116>> THEN [obj EXCEPT !.salt = v]
    ELSE obj

RECURSIVE ScanOnce(_, _)
RECURSIVE ParseMembers(_, _, _)
RECURSIVE ParseElements(_, _)

\* _parse_object_unicode at a key: "key" : value, then "," or "}"
MemberEnd(s, obj, next) ==
    IF next <= Len(s) /\ s[next] = 125 THEN Parsed(next + 1, JDict(obj))
    ELSE IF next <= Len(s) /\ s[next] = 44 THEN ParseMembers(s, SkipWs(s, next + 1), obj)
    ELSE Raise("JSONDecodeError", "Expecting ',' delimiter")
MemberNext(s, obj, key, val) ==
    IF ~val.ok THEN val
    ELSE MemberEnd(s, SetKey(obj, key, val.val.v), SkipWs(s, val.val.end))
MemberValue(s, obj, key, colon) ==
    IF colon > Len(s) \/ s[colon] # 58
    THEN Raise("JSONDecodeError", "Expecting ':' delimiter")
    ELSE MemberNext(s, obj, key, ScanOnce(s, SkipWs(s, colon + 1)))
MemberColon(s, obj, key) ==
    IF ~key.ok THEN key ELSE MemberValue(s, obj, key.val.v, SkipWs(s, key.val.end))
ParseMembers(s, i, obj) ==
    IF i > Len(s) \/ s[i] # 34
    THEN Raise("JSONDecodeError", "Expecting property name enclosed in double quotes")
    ELSE MemberColon(s, obj, ScanString(s, i + 1, <<>>))

\* _parse_array_unicode at an element: value, then "," or "]"
ElementEnd(s, next) ==
    IF next <= Len(s) /\ s[next] = 93 THEN Parsed(next + 1, JArray)
    ELSE IF next <= Len(s) /\ s[next] = 44 THEN ParseElements(s, SkipWs(s, next + 1))
    ELSE Raise("JSONDecodeError", "Expecting ',' delimiter")
ElementNext(s, val) ==
    IF ~val.ok THEN val ELSE ElementEnd(s, SkipWs(s, val.val.end))
ParseElements(s, i) == ElementNext(s, ScanOnce(s, i))

ParsedStr(str) == IF str.ok THEN Parsed(str.val.end, JStr(str.val.v)) ELSE str
\* after "{" and whitespace
ObjectAt(s, first) ==
    IF first <= Len(s) /\ s[first] = 125 THEN Parsed(first + 1, JDict(EmptyDict))
    ELSE ParseMembers(s, first, EmptyDict)
\* after "[" and whitespace
ArrayAt(s, first) ==
    IF first <= Len(s) /\ s[first] = 93 THEN Parsed(first + 1, JArray)
    ELSE ParseElements(s, first)

\* scan_once_unicode: the value that starts at index i
ScanOnce(s, i) ==
    IF i > Len(s) THEN JsonError
    ELSE IF s[i] = 34 THEN ParsedStr(ScanString(s, i + 1, <<>>))
    ELSE IF s[i] = 123 THEN ObjectAt(s, SkipWs(s, i + 1))
    ELSE IF s[i] = 91 THEN ArrayAt(s, SkipWs(s, i + 1))
    ELSE IF HasAt(s, i, <<110, 117, 108, 108>>) THEN Parsed(i + 4, JNull)
    ELSE IF HasAt(s, i, <<116, 114, 117, 101>>) THEN Parsed(i + 4, JBool(TRUE))
    ELSE IF HasAt(s, i, <<102, 97, 108, 115, 101>>) THEN Parsed(i + 5, JBool(FALSE))
    ELSE IF HasAt(s, i, <<78, 97, 78>>) THEN Parsed(i + 3, JNonFinite)
    ELSE IF HasAt(s, i, <<73, 110, 102, 105, 110, 105, 116, 121>>)
    THEN Parsed(i + 8, JNonFinite)
    ELSE IF HasAt(s, i, <<45, 73, 110, 102, 105, 110, 105, 116, 121>>)
    THEN Parsed(i + 9, JNonFinite)
    ELSE IF s[i] = 45 \/ IsDigit(s[i]) THEN ScanNumber(s, i)
    ELSE JsonError

\* json.loads(text): one value between optional whitespace, no byte order mark
JsonDocument(text, val) ==
    IF ~val.ok THEN val
    ELSE IF SkipWs(text, val.val.end) # Len(text) + 1
    THEN Raise("JSONDecodeError", "Extra data")
    ELSE Ok(val.val.v)
json_loads(text) ==
    IF text # <<>> /\ text[1] = 65279
    THEN Raise("JSONDecodeError", "Unexpected UTF-8 BOM")
    ELSE JsonDocument(text, ScanOnce(text, SkipWs(text, 1)))

\* json.dumps of a str with ensure_ascii=False: the quote, the backslash and
\* the control characters are escaped, everything else is written as it is
HexDigit(v) == IF v < 10 THEN 48 + v ELSE 87 + v
JsonEscape(c) ==
    IF c = 34 THEN <<92, 34>>
    ELSE IF c = 92 THEN <<92, 92>>
    ELSE IF c = 10 THEN <<92, 110>>
    ELSE IF c = 13 THEN <<92, 114>>
    ELSE IF c = 9 THEN <<92, 116>>
    ELSE IF c = 8 THEN <<92, 98>>
    ELSE IF c = 12 THEN <<92, 102>>
    ELSE IF c < 32 THEN <<92, 117, 48, 48, HexDigit(c \div 16), HexDigit(c % 16)>>
    ELSE <<c>>
RECURSIVE JsonEscapes(_)
JsonEscapes(s) == IF s = <<>> THEN <<>> ELSE JsonEscape(Head(s)) \o JsonEscapes(Tail(s))
JsonString(s) == <<34>> \o JsonEscapes(s) \o <<34>>

\* json.dumps(payload.model_dump(), separators=(",", ":"), ensure_ascii=False):
\* {"ver":1,"kb_id":"..","rp":"..","ca_ms":0,"salt":0}
json_dumps(p) ==
    <<123, 34, 118, 101, 114, 34, 58>> \o Decimal(p.ver)
    \o <<44, 34, 107, 98, 95, 105, 100, 34, 58>> \o JsonString(p.kb_id)
    \o <<44, 34, 114, 112, 34, 58>> \o JsonString(p.rp)
    \o <<44, 34, 99, 97, 95, 109, 115, 34, 58>> \o Decimal(p.ca_ms)
    \o <<44, 34, 115, 97, 108, 116, 34, 58>> \o BigDecimal(p.salt)
    \o <<125>>

\* the characters of the token of payload p
TokenChars(p) == urlsafe_b64encode(Utf8(json_dumps(p)))

\* what the characters of a token decode to: urlsafe_b64decode of the ASCII
\* bytes, json.loads of the UTF-8 text, and the keys of TokenPayload in it
ReadData(data) ==
    IF ~data.ok THEN Token("not_json", <<>>)
    ELSE IF data.val.t # "object" THEN Token("not_object", <<>>)
    ELSE Token("object", data.val.obj)
ReadText(text) ==
    IF ~text.ok THEN Token("not_json", <<>>) ELSE ReadData(json_loads(text.val))
ReadRaw(raw) ==
    IF ~raw.ok THEN Token("not_base64", <<>>) ELSE ReadText(Utf8Decode(raw.val))
ReadToken(chars) == ReadRaw(urlsafe_b64decode(chars))

\* encode_resource_token from `salt = derive_salt(...)` on, for the
\* normalized path rp
EncodedPayload(kb_id, rp, created_at_ms, seed) ==
    Payload(TOKEN_VERSION, kb_id, rp, created_at_ms, derive_salt(seed, kb_id, rp))

\* encode_resource_token, down to the characters of the token it returns
EncodeText(kb_id, rp, created_at_ms, seed) ==
    IF ~rp.ok THEN Raise(rp.exc, rp.msg)
    ELSE Ok(TokenChars(EncodedPayload(kb_id, rp.val, created_at_ms, seed)))
encode_resource_token_text(kb_id, resource_path, created_at_ms, seed) ==
    EncodeText(kb_id, normalize_resource_path(resource_path), created_at_ms, seed)

EncodeNormalized(kb_id, rp, created_at_ms, seed) ==
    IF ~rp.ok THEN Raise(rp.exc, rp.msg)
    ELSE Ok(Serialize(EncodedPayload(kb_id, rp.val, created_at_ms, seed)))
encode_resource_token(kb_id, resource_path, created_at_ms, seed) ==
    EncodeNormalized(kb_id, normalize_resource_path(resource_path), created_at_ms, seed)

\* decode_resource_token from `if payload.rp != normalize_resource_path(payload.rp)`
\* on, for rp the result of that call
NormalizedPayload(payload, rp) ==
    IF ~rp.ok THEN Raise(rp.exc, rp.msg)
    ELSE IF payload.val.rp # rp.val
    THEN Raise("MalformedTokenError", "Token resource path is not normalized")
    ELSE payload
\* decode_resource_token from the result of TokenPayload(**data) on
DecodedPayload(payload) ==
    IF ~payload.ok
    THEN Raise("MalformedTokenError", "Token schema invalid")
    ELSE IF payload.val.ver # TOKEN_VERSION
    THEN Raise("UnsupportedTokenVersionError", "Unsupported token version")
    ELSE NormalizedPayload(payload, normalize_resource_path(payload.val.rp))
decode_resource_token(token) ==
    IF token.layer = "not_base64"
    THEN Raise("MalformedTokenError", "Token is not valid base64url")
    ELSE IF token.layer = "not_json"
    THEN Raise("MalformedTokenError", "Token JSON is malformed")
    ELSE IF token.layer = "not_object"
    THEN Raise("TypeError", "argument after ** must be a mapping")
    ELSE DecodedPayload(TokenPayload(token.obj))

\* decode_resource_token of the characters of a token
decode_resource_token_text(chars) == decode_resource_token(ReadToken(chars))

\* class attribute `code` of the TokenError subclasses
ErrorCode(exc) ==
    CASE exc = "MalformedTokenError" -> "malformed_token"
      [] exc = "UnsupportedTokenVersionError" -> "unsupported_token_version"
      [] OTHER -> "invalid_token"

IsTokenError(exc) == exc \in {"TokenError", "MalformedTokenError", "UnsupportedTokenVersionError"}

(***************************************************************************)
(* src/app/domain/status.py                                                *)
(*                                                                         *)
(* A float x of the unit interval is written as the sign and the natural   *)
(* number 2^64 * |x|; every float that occurs here (a salt divided by 2^64, *)
(* a failure rate such as 0.3) has such a number.                          *)
(***************************************************************************)
PENDING_MS == 300
PARSED_MS == 1000
Float(neg, mag) == [neg |-> neg, mag |-> mag]
\* float("nan"): every comparison with it is false
NaN == Float(FALSE, <<>>)
IsNaN(a) == a.mag = <<>>
FloatLess(a, b) ==
    IF IsNaN(a) \/ IsNaN(b) THEN FALSE
    ELSE IF a.neg = b.neg
    THEN IF a.neg THEN BigLess(b.mag, a.mag) ELSE BigLess(a.mag, b.mag)
    ELSE a.neg /\ (a.mag # BigZero \/ b.mag # BigZero)
FloatLeq(a, b) ==
    IF IsNaN(a) \/ IsNaN(b) THEN FALSE
    ELSE a = b \/ FloatLess(a, b) \/ (a.mag = BigZero /\ b.mag = BigZero)

\* (salt & _UINT64_MAX) / (_UINT64_MAX + 1)
salt_to_unit(salt) == Float(FALSE, RoundToFloat(MaskU64(salt)))

FloatZero == Float(FALSE, BigZero)
FloatOne == Float(FALSE, Two64)

\* a slip: the distance between the two clocks instead of the clamped difference
Elapsed_abs(created_at_ms, now_ms) ==
    IF now_ms - created_at_ms > 0 THEN now_ms - created_at_ms ELSE created_at_ms - now_ms

\* max(0, now_ms - created_at_ms)
Elapsed(created_at_ms, now_ms) ==
    IF now_ms - created_at_ms > 0 THEN now_ms - created_at_ms ELSE 0

\* a slip: u <= failure_rate
TerminalStatus_leq(salt, failure_rate) ==
    IF FloatLeq(salt_to_unit(salt), failure_rate) THEN "error" ELSE "indexed"

\* u = salt_to_unit(salt); Status.error if u < failure_rate else Status.indexed
TerminalStatus(salt, failure_rate) ==
    IF FloatLess(salt_to_unit(salt), failure_rate) THEN "error" ELSE "indexed"

\* a slip: the thresholds belong to the earlier state (elapsed <= PENDING_MS)
compute_status_inclusive(created_at_ms, now_ms, salt, failure_rate) ==
    IF ~(FloatLeq(FloatZero, failure_rate) /\ FloatLeq(failure_rate, FloatOne))
    THEN Raise("ValueError", "failure_rate must be in [0,1]")
    ELSE LET elapsed == Elapsed(created_at_ms, now_ms)
         IN  IF elapsed <= PENDING_MS THEN Ok("pending")
             ELSE IF elapsed <= PARSED_MS THEN Ok("parsed")
             ELSE Ok(TerminalStatus(salt, failure_rate))

\* a slip: the terminal draw is made from the clock, not from the salt
compute_status_clock_draw(created_at_ms, now_ms, salt, failure_rate) ==
    IF ~(FloatLeq(FloatZero, failure_rate) /\ FloatLeq(failure_rate, FloatOne))
    THEN Raise("ValueError", "failure_rate must be in [0,1]")
    ELSE LET elapsed == Elapsed(created_at_ms, now_ms)
         IN  IF elapsed < PENDING_MS THEN Ok("pending")
             ELSE IF elapsed < PARSED_MS THEN Ok("parsed")
             ELSE Ok(TerminalStatus(Big(0, (now_ms * 16) % LimbBase, 0, 0, 0),
                                     failure_rate))

\* a slip: failure_rate is looked at only where it is used
compute_status_late_check(created_at_ms, now_ms, salt, failure_rate) ==
    LET elapsed == Elapsed(created_at_ms, now_ms)
    IN  IF elapsed < PENDING_MS THEN Ok("pending")
        ELSE IF elapsed < PARSED_MS THEN Ok("parsed")
        ELSE IF ~(FloatLeq(FloatZero, failure_rate) /\ FloatLeq(failure_rate, FloatOne))
        THEN Raise("ValueError", "failure_rate must be in [0,1]")
        ELSE Ok(TerminalStatus(salt, failure_rate))

compute_status(created_at_ms, now_ms, salt, failure_rate) ==
    IF ~(FloatLeq(FloatZero, failure_rate) /\ FloatLeq(failure_rate, FloatOne))
    THEN Raise("ValueError", "failure_rate must be in [0,1]")
    ELSE LET elapsed == Elapsed(created_at_ms, now_ms)
         IN  IF elapsed < PENDING_MS THEN Ok("pending")
             ELSE IF elapsed < PARSED_MS THEN Ok("parsed")
             ELSE Ok(TerminalStatus(salt, failure_rate))

(***************************************************************************)
(* src/app/service/kb_service.py                                           *)
(***************************************************************************)
\* get_failure_rate_from_env(), for a FAILURE_RATE that parses as a float
get_failure_rate_from_env(env) ==
    IF ~(FloatLeq(FloatZero, env) /\ FloatLeq(env, FloatOne))
    THEN Raise("ValueError", "FAILURE_RATE must be in [0,1]")
    ELSE Ok(env)

\* the dict upload_resource returns
UploadResponse(resource_id, resource_path, status, created_at) ==
    [resource_id |-> resource_id, resource_path |-> resource_path,
     status |-> status, created_at |-> created_at]

\* upload_resource(kb_id=..., resource_path=...) at clock now, with CI_RUN_SEED seed
UploadIssued(rp, now, token) ==
    IF ~token.ok THEN Raise(token.exc, token.msg)
    ELSE Ok(UploadResponse(token.val, rp, "pending", now))
UploadNormalized(kb_id, rp, now, seed) ==
    IF ~rp.ok THEN Raise(rp.exc, rp.msg)
    ELSE UploadIssued(rp.val, now, encode_resource_token(kb_id, rp.val, now, seed))
upload_resource(kb_id, resource_path, now, seed) ==
    UploadNormalized(kb_id, normalize_resource_path(resource_path), now, seed)

\* one element of the list list_children returns; error_code and
\* error_message are "" where the dict has no such key
Item(resource_id, resource_path, status, updated_at, error_code, error_message) ==
    [resource_id |-> resource_id, resource_path |-> resource_path, status |-> status,
     updated_at |-> updated_at, error_code |-> error_code,
     error_message |-> error_message]

\* the loop `for tok in ids:` of list_children, with out the items appended
\* so far; an exception that is no TokenError leaves the loop and the call
RECURSIVE ChildrenLoop(_, _, _, _, _)
\* the item of a token of this knowledge base, for status the result of
\* compute_status
StatusItem(kb_id, ids, now, failure_rate, out, payload, status) ==
    IF ~status.ok THEN Raise(status.exc, status.msg)
    ELSE ChildrenLoop(kb_id, Tail(ids), now, failure_rate,
             Append(out, Item(Head(ids), payload.val.rp, status.val, now, "", "")))
\* a loop body that never compares payload.kb_id with kb_id
ChildItem_any_kb(kb_id, ids, now, failure_rate, out, payload) ==
    IF ~payload.ok /\ IsTokenError(payload.exc)
    THEN ChildrenLoop(kb_id, Tail(ids), now, failure_rate,
             Append(out, Item(Head(ids), <<>>, "error", now,
                              ErrorCode(payload.exc), payload.msg)))
    ELSE IF ~payload.ok
    THEN Raise(payload.exc, payload.msg)
    ELSE StatusItem(kb_id, ids, now, failure_rate, out, payload,
                    compute_status(payload.val.ca_ms, now, payload.val.salt,
                                   failure_rate))

\* the body of the loop, for payload the result of decode_resource_token(tok)
ChildItem(kb_id, ids, now, failure_rate, out, payload) ==
    IF ~payload.ok /\ IsTokenError(payload.exc)
    THEN ChildrenLoop(kb_id, Tail(ids), now, failure_rate,
             Append(out, Item(Head(ids), <<>>, "error", now,
                              ErrorCode(payload.exc), payload.msg)))
    ELSE IF ~payload.ok
    THEN Raise(payload.exc, payload.msg)
    ELSE IF payload.val.kb_id # kb_id
    THEN ChildrenLoop(kb_id, Tail(ids), now, failure_rate,
             Append(out, Item(Head(ids), payload.val.rp, "error", now, "kb_mismatch",
                              "Token belongs to a different knowledge base")))
    ELSE StatusItem(kb_id, ids, now, failure_rate, out, payload,
                    compute_status(payload.val.ca_ms, now, payload.val.salt,
                                   failure_rate))
ChildrenLoop(kb_id, ids, now, failure_rate, out) ==
    IF ids = <<>> THEN Ok(out)
    ELSE ChildItem(kb_id, ids, now, failure_rate, out, decode_resource_token(Head(ids)))

\* list_children(kb_id=..., ids=...) at clock now, with FAILURE_RATE env
list_children(kb_id, ids, now, env) ==
    IF ids = <<>> THEN Raise("ValueError", "missing_ids")
    ELSE LET failure_rate == get_failure_rate_from_env(env)
         IN  IF ~failure_rate.ok THEN Raise(failure_rate.exc, failure_rate.msg)
             ELSE ChildrenLoop(kb_id, ids, now, failure_rate.val, <<>>)

(***************************************************************************)
(* src/app/api/routes.py                                                   *)
(***************************************************************************)
HasComma(s) == \E i \in 1..Len(s) : s[i] = 44

\* ids[0].split(","): the stretches of s between its commas
Commas(s) == {i \in 1..Len(s) : s[i] = 44}
\* the position of the k-th comma of s; 0 and Len(s) + 1 stand for its ends
CommaAt(s, k) ==
    IF k = 0 THEN 0
    ELSE IF k > Cardinality(Commas(s)) THEN Len(s) + 1
    ELSE CHOOSE i \in Commas(s) : Cardinality({j \in Commas(s) : j < i}) = k - 1
SplitComma(s) ==
    [k \in 1..(Cardinality(Commas(s)) + 1) |->
        SubSeq(s, CommaAt(s, k - 1) + 1, CommaAt(s, k) - 1)]

\* a comprehension that strips the pieces and keeps the blank ones
RECURSIVE StrippedPieces_keep_blank(_)
StrippedPieces_keep_blank(pieces) ==
    IF pieces = <<>> THEN <<>>
    ELSE <<Strip(Head(pieces))>> \o StrippedPieces_keep_blank(Tail(pieces))

\* [tok.strip() for tok in pieces if tok.strip()]
RECURSIVE StrippedPieces(_)
StrippedPieces(pieces) ==
    IF pieces = <<>> THEN <<>>
    ELSE IF Strip(Head(pieces)) = <<>> THEN StrippedPieces(Tail(pieces))
    ELSE <<Strip(Head(pieces))>> \o StrippedPieces(Tail(pieces))

\* the list monitor_children hands to list_children
QueryIds(ids) ==
    IF Len(ids) = 1 /\ HasComma(ids[1]) THEN StrippedPieces(SplitComma(ids[1]))
    ELSE ids

\* the ids as list_children reads them
ReadIds(ids) == [i \in 1..Len(ids) |-> ReadToken(ids[i])]

HTTPException(status_code, error_code, error_message) ==
    [ok |-> FALSE, exc |-> "HTTPException", msg |-> error_message,
     status_code |-> status_code, error_code |-> error_code]

\* monitor_children from the result of list_children on: the items, the
\* HTTPException for missing_ids, or the exception raised again
MonitorResponse(children) ==
    IF children.ok THEN Ok(children.val)
    ELSE IF (children.exc = "ValueError" \/ IsTokenError(children.exc))
            /\ children.msg = "missing_ids"
    THEN HTTPException(400, "missing_ids", "At least one id must be provided")
    ELSE Raise(children.exc, children.msg)

monitor_children(kb_id, ids, now, env) ==
    MonitorResponse(list_children(kb_id, ReadIds(QueryIds(ids)), now, env))

(***************************************************************************)
(* src/runner/smoke.py                                                     *)
(***************************************************************************)
\* r.raise_for_status(); return r.json()["items"], for response what the
\* handler returned or raised
PollResponse(response) ==
    IF response.ok THEN Ok(response.val)
    ELSE IF response.exc = "HTTPException" THEN Raise("HTTPStatusError", "400")
    ELSE Raise("HTTPStatusError", "500")

\* poll_children(base_url, kb_id, tokens) answered by the service at clock
\* now: one ids parameter per token; without any, the required parameter is
\* missing and the request is refused before the handler runs
poll_children(kb_id, tokens, now, env) ==
    IF tokens = <<>> THEN Raise("HTTPStatusError", "422")
    ELSE PollResponse(MonitorResponse(list_children(kb_id, tokens, now, env)))

\* terminal_at[rid] = at
Put(terminal_at, rid, at) ==
    [x \in (DOMAIN terminal_at) \cup {rid} |-> IF x = rid THEN at ELSE terminal_at[x]]

\* a loop that records the time of every terminal item, seen before or not
RECURSIVE RecordTerminal_overwrite(_, _)
RecordTerminal_overwrite(items, terminal_at) ==
    IF items = <<>> THEN terminal_at
    ELSE IF Head(items).status \in {"indexed", "error"}
    THEN RecordTerminal_overwrite(Tail(items),
             Put(terminal_at, Head(items).resource_id, Head(items).updated_at))
    ELSE RecordTerminal_overwrite(Tail(items), terminal_at)

\* for it in items: if status in ("indexed", "error") and rid not in terminal_at:
\*     terminal_at[rid] = int(it.get("updated_at", now_ms))
RECURSIVE RecordTerminal(_, _)
RecordTerminal(items, terminal_at) ==
    IF items = <<>> THEN terminal_at
    ELSE IF Head(items).status \in {"indexed", "error"}
            /\ Head(items).resource_id \notin DOMAIN terminal_at
    THEN RecordTerminal(Tail(items),
             Put(terminal_at, Head(items).resource_id, Head(items).updated_at))
    ELSE RecordTerminal(Tail(items), terminal_at)

\* return last_items, terminal_at
PollResult(last_items, terminal_at) ==
    Ok([last_items |-> last_items, terminal_at |-> terminal_at])

(***************************************************************************)
(* src/runner/client.py, src/runner/types.py                               *)
(***************************************************************************)
\* the exception raised after the loop
RetryError(op) ==
    CASE op = "create_kb" -> "CreateKBError"
      [] op = "upload_one" -> "UploadError"
      [] op = "poll_children" -> "PollError"

\* its message: str(last_err) if last_err else "... failed"; upload_one
\* always formats last_err into it
RetryMessage(op, last_err) ==
    CASE op = "create_kb" -> IF last_err = "None" THEN "create_kb failed" ELSE last_err
      [] op = "upload_one" -> "upload failed: " \o last_err
      [] op = "poll_children" -> IF last_err = "None" THEN "poll failed" ELSE last_err

\* a loop that tries the same attempt again
NextAttempt_same(attempt) == attempt

\* for attempt in range(retries): the attempt after this one
NextAttempt(attempt) == attempt + 1

(***************************************************************************)
(* SpecNormalize: the normalizer applied to an arbitrary input string, and *)
(* applied again to its own result.                                        *)
(***************************************************************************)
NIdle ==
    /\ n_path = "idle"
    /\ n_first = "idle"
    /\ n_second = "idle"
    /\ n_pc = "idle"

TIdle ==
    /\ t_kb_id = "idle"
    /\ t_resource_path = "idle"
    /\ t_created_at_ms = "idle"
    /\ t_seed = "idle"
    /\ t_issued = "idle"
    /\ t_token = "idle"
    /\ t_payload = "idle"
    /\ t_pc = "idle"

CIdle ==
    /\ c_created_at_ms = "idle"
    /\ c_salt = "idle"
    /\ c_failure_rate = "idle"
    /\ c_now_ms = "idle"
    /\ c_status = "idle"
    /\ c_prev_now_ms = "idle"
    /\ c_prev = "idle"
    /\ c_calls = "idle"

SIdle ==
    /\ s_env_seed = "idle"
    /\ s_env_failure_rate = "idle"
    /\ s_now = "idle"
    /\ s_ticks = "idle"
    /\ s_upload_kb_id = "idle"
    /\ s_upload = "idle"
    /\ s_kb_id = "idle"
    /\ s_ids = "idle"
    /\ s_children = "idle"

MIdle ==
    /\ m_kb_id = "idle"
    /\ m_resource_path = "idle"
    /\ m_created_at_ms = "idle"
    /\ m_seed = "idle"
    /\ m_issued = "idle"
    /\ m_change = "idle"
    /\ m_token = "idle"
    /\ m_payload = "idle"
    /\ m_pc = "idle"

HIdle ==
    /\ h_env_failure_rate = "idle"
    /\ h_now = "idle"
    /\ h_kb_id = "idle"
    /\ h_query = "idle"
    /\ h_ids = "idle"
    /\ h_children = "idle"
    /\ h_response = "idle"

KIdle ==
    /\ k_call = "idle"
    /\ k_frame = "idle"
    /\ k_result = "idle"
    /\ k_calls = "idle"

PIdle ==
    /\ p_env_failure_rate = "idle"
    /\ p_now = "idle"
    /\ p_tokens = "idle"
    /\ p_poll_interval = "idle"
    /\ p_timeout = "idle"
    /\ p_started = "idle"
    /\ p_terminal_at = "idle"
    /\ p_last_items = "idle"
    /\ p_history = "idle"
    /\ p_waits = "idle"
    /\ p_result = "idle"
    /\ p_pc = "idle"

RIdle ==
    /\ r_op = "idle"
    /\ r_path = "idle"
    /\ r_retries = "idle"
    /\ r_attempt = "idle"
    /\ r_outcomes = "idle"
    /\ r_last_err = "idle"
    /\ r_result = "idle"
    /\ r_pc = "idle"

NInit ==
    /\ n_path \in Paths
    /\ n_first = NotCalled
    /\ n_second = NotCalled
    /\ n_pc = "start"

Normalize ==
    /\ n_pc = "start"
    /\ n_first' = normalize_resource_path(n_path)
    /\ n_pc' = "once"
    /\ UNCHANGED <<n_path, n_second>>
    /\ UNCHANGED <<tvars, cvars, svars, mvars, hvars, kvars, pvars, rvars>>

Renormalize ==
    /\ n_pc = "once"
    /\ n_first.ok
    /\ n_second' = normalize_resource_path(n_first.val)
    /\ n_pc' = "twice"
    /\ UNCHANGED <<n_path, n_first>>
    /\ UNCHANGED <<tvars, cvars, svars, mvars, hvars, kvars, pvars, rvars>>

NNext == Normalize \/ Renormalize

NormalizeInit == NInit /\ TIdle /\ CIdle /\ SIdle /\ MIdle /\ HIdle /\ KIdle /\ PIdle /\ RIdle

SpecNormalize == NormalizeInit /\ [][NNext]_vars

\* C1: normalization is idempotent: whenever normalize_resource_path(p)
\* succeeds, normalizing its result succeeds too and returns the same string.
C1_Idempotent ==
    n_pc = "twice" => (n_second.ok /\ n_second.val = n_first.val)

StartsWith(s, prefix) == Len(s) >= Len(prefix) /\ SubSeq(s, 1, Len(prefix)) = prefix

\* C13: no string returned by normalize_resource_path starts with "./".
C13_NoLeadingDotSlash ==
    (n_pc # "start" /\ n_first.ok) => ~StartsWith(n_first.val, <<46, 47>>)

\* C14: no string returned by normalize_resource_path starts or ends with a
\* whitespace character, also when the whitespace stood behind a leading "./"
\* or before a trailing "/" of the input.
C14_NoSurroundingWhitespace ==
    (n_pc # "start" /\ n_first.ok) =>
        /\ n_first.val # <<>>
        /\ ~IsSpace(n_first.val[1])
        /\ ~IsSpace(n_first.val[Len(n_first.val)])

\* C15: every string returned by normalize_resource_path consists of
\* characters in 0x20..0x7E only; an input that holds any other character
\* after trimming, slash rewriting and stripping is rejected.
C15_PrintableAscii ==
    (n_pc # "start" /\ n_first.ok) =>
        \A i \in 1..Len(n_first.val) : n_first.val[i] \in 32..126

\* the path before its extension is lowercased (paths.py:31-35)
Cleaned(path) == RStripSlash(StripDotSlash(CollapseSlashes(ReplaceBackslash(Strip(path)))))
\* index of the last "/" of p, 0 when there is none
LastSlash(p) ==
    LET slashes == {i \in 1..Len(p) : p[i] = 47}
    IN  IF slashes = {} THEN 0 ELSE CHOOSE i \in slashes : \A j \in slashes : j <= i
\* p with the characters after the last "." of its final component in lower
\* case, and nothing else changed
WithLowerFileExtension(p, slash, dots) ==
    IF dots = {} THEN p
    ELSE [i \in 1..Len(p) |->
             IF \E d \in dots : \A e \in dots : e <= d /\ d < i
             THEN LowerChar(p[i]) ELSE p[i]]

\* C16: normalize_resource_path lowercases the file extension and nothing
\* else: every directory component and the base name of the final component
\* keep their case, also when the last "." of the path stands in a directory
\* name.
C16_OnlyExtensionLowered ==
    (n_pc # "start" /\ n_first.ok) =>
        n_first.val = WithLowerFileExtension(Cleaned(n_path), LastSlash(Cleaned(n_path)),
                          {i \in (LastSlash(Cleaned(n_path)) + 1)..Len(Cleaned(n_path)) :
                               Cleaned(n_path)[i] = 46})

\* the input is empty or nothing is left of it: whitespace, slashes and
\* backslashes only, or "./" followed by nothing but slashes and backslashes
ReducesToEmpty(path) ==
    \/ \A i \in 1..Len(path) : IsSpace(path[i])
    \/ \E a \in 1..Len(path), b \in 1..Len(path) :
          /\ \A i \in 1..(a - 1) : IsSpace(path[i])
          /\ \A i \in (b + 1)..Len(path) : IsSpace(path[i])
          /\ \A i \in (a + 1)..b : path[i] \in {47, 92}
          /\ path[a] \in {47, 92} \/ (path[a] = 46 /\ a < b)

\* C17: every string returned by normalize_resource_path is non-empty, holds
\* no backslash and no "//", and does not end with "/"; an input that is
\* empty or reduces to empty fails with ValueError instead of returning.
C17_SlashCanonical ==
    n_pc # "start" =>
        /\ n_first.ok =>
              /\ n_first.val # <<>>
              /\ \A i \in 1..Len(n_first.val) : n_first.val[i] # 92
              /\ \A i \in 1..(Len(n_first.val) - 1) :
                     ~(n_first.val[i] = 47 /\ n_first.val[i + 1] = 47)
              /\ n_first.val[Len(n_first.val)] # 47
        /\ ReducesToEmpty(n_path) => (~n_first.ok /\ n_first.exc = "ValueError")

\* a path with a backslash next to a slash and a slash at its end was returned
C17_Witness ==
    /\ n_pc = "once"
    /\ n_first.ok
    /\ \E i \in 1..(Len(n_path) - 1) : n_path[i] = 92 /\ n_path[i + 1] = 47
    /\ n_path[Len(n_path)] = 47

\* an input that reduces to empty, other than the empty string, was refused
C17_WitnessEmpty ==
    /\ n_pc = "once"
    /\ n_path # <<>>
    /\ ReducesToEmpty(n_path)
    /\ ~n_first.ok

(***************************************************************************)
(* SpecToken: encode_resource_token on arbitrary arguments followed by     *)
(* decode_resource_token of the token it issued, and                       *)
(* decode_resource_token of an arbitrary token received from outside.      *)
(***************************************************************************)
\* "kb", "x"
KbIds == {<<107, 98>>, <<120>>}
Seeds == {0, 42}
CreatedAts == {0, 1700}
TokenPaths == StringsUpTo(PathChars, MaxTokenPathLen)

\* absent, 0, 1, 2, -1, "v"
VerValues == {JMissing, JNum(PyNat(0)), JNum(PyNat(1)), JNum(PyNat(2)),
              JNum(PyNeg(1)), JStr(<<118>>)}
KbIdValues == {JMissing, JNum(PyNat(7)), JStr(<<107, 98>>)}
RpValues == {JMissing} \cup {JStr(p) : p \in StringsUpTo(PathChars, MaxRpLen)}
CaMsValues == {JNull, JNum(PyNat(0)), JNum(PyNat(1700))}
SaltValues == {JMissing, JNum(PyNeg(1)), JNum(PyNat(0)), JNum(PyInt(FALSE, UINT64_MAX)),
               JNum(PyInt(FALSE, Two64))}

AnyTokens ==
    {Token(l, <<>>) : l \in {"not_base64", "not_json", "not_object"}}
    \cup {Token("object", JObject(v, k, r, c, s)) :
              v \in VerValues, k \in KbIdValues, r \in RpValues,
              c \in CaMsValues, s \in SaltValues}

TInit ==
    /\ t_issued = NotCalled
    /\ t_payload = NotCalled
    /\ \/ /\ t_pc = "start"
          /\ t_kb_id \in KbIds
          /\ t_resource_path \in TokenPaths
          /\ t_created_at_ms \in CreatedAts
          /\ t_seed \in Seeds
          /\ t_token = NoToken
       \/ /\ t_pc = "received"
          /\ t_kb_id = <<>>
          /\ t_resource_path = <<>>
          /\ t_created_at_ms = 0
          /\ t_seed = 0
          /\ t_token \in AnyTokens

Encode ==
    /\ t_pc = "start"
    /\ t_issued' = encode_resource_token(t_kb_id, t_resource_path, t_created_at_ms, t_seed)
    /\ t_token' = IF t_issued'.ok THEN t_issued'.val ELSE NoToken
    /\ t_pc' = IF t_issued'.ok THEN "issued" ELSE "refused"
    /\ UNCHANGED <<t_kb_id, t_resource_path, t_created_at_ms, t_seed, t_payload>>
    /\ UNCHANGED <<nvars, cvars, svars, mvars, hvars, kvars, pvars, rvars>>

Decode ==
    /\ t_pc \in {"issued", "received"}
    /\ t_payload' = decode_resource_token(t_token)
    /\ t_pc' = IF t_pc = "issued" THEN "decoded_issued" ELSE "decoded"
    /\ UNCHANGED <<t_kb_id, t_resource_path, t_created_at_ms, t_seed, t_issued, t_token>>
    /\ UNCHANGED <<nvars, cvars, svars, mvars, hvars, kvars, pvars, rvars>>

TNext == Encode \/ Decode

TokenInit == TInit /\ NIdle /\ CIdle /\ SIdle /\ MIdle /\ HIdle /\ KIdle /\ PIdle /\ RIdle

SpecToken == TokenInit /\ [][TNext]_vars

\* C2: every token encode_resource_token issues is accepted by
\* decode_resource_token, and the payload holds the kb_id and created_at_ms
\* given to encode, the normalized path, and derive_salt of seed, kb_id and the
\* normalized path.
C2_RoundTrip ==
    t_pc = "decoded_issued" =>
        LET rp == normalize_resource_path(t_resource_path).val
        IN  /\ t_payload.ok
            /\ t_payload.val.kb_id = t_kb_id
            /\ t_payload.val.rp = rp
            /\ t_payload.val.ca_ms = t_created_at_ms
            /\ t_payload.val.salt = derive_salt(t_seed, t_kb_id, rp)

\* C3: decode_resource_token returns a payload or raises MalformedTokenError
\* or UnsupportedTokenVersionError; nothing else escapes it.
C3_DecodeTotal ==
    t_pc \in {"decoded", "decoded_issued"} =>
        \/ t_payload.ok
        \/ t_payload.exc \in {"MalformedTokenError", "UnsupportedTokenVersionError"}

\* A token that is well-formed but for its version: changing "ver" to the
\* supported constant gives a token that decodes.
OtherVersion(token) ==
    /\ token.layer = "object"
    /\ token.obj.ver.t = "num"
    /\ ~token.obj.ver.n.neg
    /\ BigLess(BigOfNat(TOKEN_VERSION), token.obj.ver.n.mag)
    /\ decode_resource_token(
           [token EXCEPT !.obj.ver = JNum(PyNat(TOKEN_VERSION))]).ok

\* C5: decoding an otherwise well-formed token whose version is a positive
\* integer other than the supported one raises UnsupportedTokenVersionError,
\* not MalformedTokenError.
C5_VersionRejected ==
    (t_pc = "decoded" /\ OtherVersion(t_token)) =>
        (~t_payload.ok /\ t_payload.exc = "UnsupportedTokenVersionError")

\* the string is what normalize_resource_path returns for itself
InNormalizedForm(rp) ==
    normalize_resource_path(rp).ok /\ normalize_resource_path(rp).val = rp

\* a token that passes the schema with the supported version
SchemaValid(token) ==
    /\ token.layer = "object"
    /\ TokenPayload(token.obj).ok
    /\ TokenPayload(token.obj).val.ver = TOKEN_VERSION

\* C18: every payload decode_resource_token returns has version 1, a salt in
\* 0 .. 2^64-1 and a path that normalize_resource_path maps to itself; a token
\* that is valid but for a path that is not in normalized form is rejected
\* with MalformedTokenError.
C18_PayloadInvariant ==
    t_pc \in {"decoded", "decoded_issued"} =>
        /\ t_payload.ok =>
              /\ t_payload.val.ver = 1
              /\ BigLeq(t_payload.val.salt, UINT64_MAX)
              /\ InNormalizedForm(t_payload.val.rp)
        /\ (SchemaValid(t_token) /\ ~InNormalizedForm(t_token.obj.rp.s)) =>
              (~t_payload.ok /\ t_payload.exc = "MalformedTokenError")

\* the half that holds: what decode returns satisfies the invariants
C18_ReturnedPayloads ==
    (t_pc \in {"decoded", "decoded_issued"} /\ t_payload.ok) =>
        /\ t_payload.val.ver = 1
        /\ BigLeq(t_payload.val.salt, UINT64_MAX)
        /\ InNormalizedForm(t_payload.val.rp)

(***************************************************************************)
(* SpecTamper: a token is issued, then one bit of one of its characters is *)
(* flipped, or characters are dropped from its end, and the result is      *)
(* handed to decode_resource_token.  Tokens are strings of characters here. *)
(***************************************************************************)
\* "a", "a.A", " d/a "
TamperPaths == {<<97>>, <<97, 46, 65>>, <<32, 100, 47, 97, 32>>}
\* a character of a token is one byte of its ASCII encoding
BitsPerChar == 8

\* c with bit b flipped
FlipBit(c, b) == IF (c \div 2^b) % 2 = 1 THEN c - 2^b ELSE c + 2^b

MInit ==
    /\ m_kb_id \in KbIds
    /\ m_resource_path \in TamperPaths
    /\ m_created_at_ms \in CreatedAts
    /\ m_seed \in Seeds
    /\ m_issued = NotCalled
    /\ m_change = "none"
    /\ m_token = <<>>
    /\ m_payload = NotCalled
    /\ m_pc = "start"

Issue ==
    /\ m_pc = "start"
    /\ m_issued' = encode_resource_token_text(m_kb_id, m_resource_path, m_created_at_ms,
                                              m_seed)
    /\ m_pc' = IF m_issued'.ok THEN "issued" ELSE "refused"
    /\ UNCHANGED <<m_kb_id, m_resource_path, m_created_at_ms, m_seed, m_change, m_token,
                   m_payload>>
    /\ UNCHANGED <<nvars, tvars, cvars, svars, hvars, kvars, pvars, rvars>>

\* the token reaches decode as it was issued
Present ==
    /\ m_pc = "issued"
    /\ m_token' = m_issued.val
    /\ m_change' = "none"
    /\ m_payload' = decode_resource_token_text(m_token')
    /\ m_pc' = "decoded"
    /\ UNCHANGED <<m_kb_id, m_resource_path, m_created_at_ms, m_seed, m_issued>>
    /\ UNCHANGED <<nvars, tvars, cvars, svars, hvars, kvars, pvars, rvars>>

Flip(i, b) ==
    /\ m_pc = "issued"
    /\ m_token' = [m_issued.val EXCEPT ![i] = FlipBit(@, b)]
    /\ m_change' = "flip"
    /\ m_payload' = decode_resource_token_text(m_token')
    /\ m_pc' = "decoded"
    /\ UNCHANGED <<m_kb_id, m_resource_path, m_created_at_ms, m_seed, m_issued>>
    /\ UNCHANGED <<nvars, tvars, cvars, svars, hvars, kvars, pvars, rvars>>

Truncate(n) ==
    /\ m_pc = "issued"
    /\ m_token' = SubSeq(m_issued.val, 1, Len(m_issued.val) - n)
    /\ m_change' = "truncate"
    /\ m_payload' = decode_resource_token_text(m_token')
    /\ m_pc' = "decoded"
    /\ UNCHANGED <<m_kb_id, m_resource_path, m_created_at_ms, m_seed, m_issued>>
    /\ UNCHANGED <<nvars, tvars, cvars, svars, hvars, kvars, pvars, rvars>>

\* the positions of the issued token
IssuedPositions == IF m_issued.ok THEN 1..Len(m_issued.val) ELSE {}

MNext ==
    \/ Issue
    \/ Present
    \/ \E i \in IssuedPositions, b \in 0..(BitsPerChar - 1) : Flip(i, b)
    \/ \E n \in IssuedPositions : Truncate(n)

TamperInit == MInit /\ NIdle /\ TIdle /\ CIdle /\ SIdle /\ HIdle /\ KIdle /\ PIdle /\ RIdle

SpecTamper == TamperInit /\ [][MNext]_vars

\* C12: decoding a token obtained from an issued token by flipping a single
\* bit, or by dropping one or more trailing characters, fails with
\* MalformedTokenError: decode never returns a payload for such a token.
C12_TamperDetected ==
    (m_pc = "decoded" /\ m_change \in {"flip", "truncate"}) =>
        (~m_payload.ok /\ m_payload.exc = "MalformedTokenError")

\* a truncated token is never decoded
C12_TruncationDetected ==
    (m_pc = "decoded" /\ m_change = "truncate") => ~m_payload.ok

\* an issued token decodes to the payload it was made from
C12_RoundTrip ==
    (m_pc = "decoded" /\ m_change = "none") =>
        /\ m_payload.ok
        /\ m_payload.val.kb_id = m_kb_id
        /\ m_payload.val.ca_ms = m_created_at_ms
        /\ ReadToken(m_token) =
               encode_resource_token(m_kb_id, m_resource_path, m_created_at_ms, m_seed).val

(***************************************************************************)
(* SpecStatus: compute_status called again and again for one token         *)
(* (created_at_ms, salt) and one failure_rate, at times that never go      *)
(* back.                                                                   *)
(***************************************************************************)
\* 0.3 is the float 0x13333333333333 * 2^-54
FailureRates == {FloatZero,
                 Float(FALSE, Big(0, 19660, 52428, 52428, 52224)),     \* 0.3
                 FloatOne,
                 Float(FALSE, Big(1, 32768, 0, 0, 0)),                 \* 1.5
                 Float(TRUE, Big(0, 32768, 0, 0, 0)),                  \* -0.5
                 NaN}

StatusSalts == {BigZero,
                Big(0, 0, 0, 0, 1),
                Big(0, 19660, 52428, 52428, 52223),     \* rounds up to 0.3 * 2^64
                Big(0, 19660, 52428, 52428, 51200),     \* the float below 0.3
                Big(0, 32768, 0, 0, 0),                 \* 2^63
                Big(0, 65535, 65535, 65535, 64511),     \* 2^64 - 1025
                UINT64_MAX}                             \* 2^64 - 1

StatusCreatedAts == {0, 300}
ClockSteps == {0, 1, 299, 300, 700, 1000}

CInit ==
    /\ c_created_at_ms \in StatusCreatedAts
    /\ c_salt \in StatusSalts
    /\ c_failure_rate \in FailureRates
    /\ c_now_ms = 0
    /\ c_status = NotCalled
    /\ c_prev_now_ms = 0
    /\ c_prev = NotCalled
    /\ c_calls = 0

Query(step) ==
    /\ c_calls < MaxCalls
    /\ c_now_ms' = c_now_ms + step
    /\ c_status' = compute_status(c_created_at_ms, c_now_ms', c_salt, c_failure_rate)
    /\ c_prev_now_ms' = c_now_ms
    /\ c_prev' = c_status
    /\ c_calls' = c_calls + 1
    /\ UNCHANGED <<c_created_at_ms, c_salt, c_failure_rate>>
    /\ UNCHANGED <<nvars, tvars, svars, mvars, hvars, kvars, pvars, rvars>>

CNext == \E step \in ClockSteps : Query(step)

StatusInit == CInit /\ NIdle /\ TIdle /\ SIdle /\ MIdle /\ HIdle /\ KIdle /\ PIdle /\ RIdle

SpecStatus == StatusInit /\ [][CNext]_vars

Rank(status) == CASE status = "pending" -> 0 [] status = "parsed" -> 1 [] OTHER -> 2
Terminal == {"indexed", "error"}
\* max(0, now_ms - created_at_ms) of the latest call, as the claims state it
ElapsedNow == IF c_now_ms < c_created_at_ms THEN 0 ELSE c_now_ms - c_created_at_ms

\* C6: for a fixed token and failure rate and non-decreasing now_ms, a later
\* call never returns an earlier state than the call before it, in the order
\* pending < parsed < terminal.
C6_NeverRegresses ==
    (c_prev.ok /\ c_status.ok) => Rank(c_prev.val) <= Rank(c_status.val)

C6_Witness ==
    /\ c_prev.ok /\ c_prev.val = "parsed"
    /\ c_status.ok /\ c_status.val \in Terminal
    /\ c_prev_now_ms < c_now_ms

\* C7: once a call has returned a terminal status, every later call for the
\* same token and failure rate returns that same status.
C7_TerminalFixed ==
    (c_prev.ok /\ c_prev.val \in Terminal) => (c_status.ok /\ c_status.val = c_prev.val)

C7_Witness ==
    /\ c_prev.ok /\ c_prev.val = "error"
    /\ c_status.ok /\ c_status.val = "error"
    /\ c_prev_now_ms < c_now_ms

\* C8: compute_status returns pending exactly when elapsed < 300, parsed
\* exactly when 300 <= elapsed < 1000, and indexed or error exactly when
\* elapsed >= 1000, where elapsed is now_ms - created_at_ms clamped at 0.
C8_Thresholds ==
    c_status.ok =>
        /\ (c_status.val = "pending") <=> (ElapsedNow < 300)
        /\ (c_status.val = "parsed") <=> (300 <= ElapsedNow /\ ElapsedNow < 1000)
        /\ (c_status.val \in Terminal) <=> (ElapsedNow >= 1000)

C8_Witness ==
    /\ c_status.ok /\ c_status.val = "pending"
    /\ c_now_ms < c_created_at_ms
    /\ c_calls > 1

\* C9: with failure_rate = 1.0, every call with elapsed >= 1000 returns
\* error, whatever the salt in 0 .. 2^64-1.
C9_RateOneAlwaysError ==
    (c_status.ok /\ c_failure_rate = FloatOne /\ ElapsedNow >= 1000)
        => c_status.val = "error"

\* C10: with failure_rate = 0.0, every call with elapsed >= 1000 returns
\* indexed, whatever the salt in 0 .. 2^64-1.
C10_RateZeroAlwaysIndexed ==
    (c_status.ok /\ c_failure_rate = FloatZero /\ ElapsedNow >= 1000)
        => c_status.val = "indexed"

C10_Witness ==
    /\ c_status.ok /\ c_status.val = "indexed"
    /\ c_failure_rate = FloatZero
    /\ c_salt = BigZero
    /\ ElapsedNow >= 1000

\* the failure_rate lies in [0,1], told from the sign and the magnitude and
\* not by the comparisons of the code
InUnitInterval(f) ==
    /\ ~IsNaN(f)
    /\ (f.neg => f.mag = BigZero)
    /\ (f.mag[1] = 0 \/ f.mag = Two64)

\* C11: compute_status fails, with the ValueError that says failure_rate must
\* be in [0,1], whenever failure_rate is outside [0,1] (NaN included),
\* whatever created_at_ms, now_ms and salt are and also while the elapsed time
\* is below the terminal threshold; for a failure_rate in [0,1] it returns.
C11_InvalidFailureRate ==
    c_calls > 0 =>
        IF InUnitInterval(c_failure_rate)
        THEN c_status.ok
        ELSE /\ ~c_status.ok
             /\ c_status.exc = "ValueError"
             /\ c_status.msg = "failure_rate must be in [0,1]"

C11_Witness ==
    /\ c_calls > 0
    /\ ~InUnitInterval(c_failure_rate)
    /\ ElapsedNow < PENDING_MS
    /\ ~c_status.ok

(***************************************************************************)
(* SpecService: one process of the service.  The clock advances, one       *)
(* resource is uploaded, and clients ask for the status of batches of ids: *)
(* the token of that upload and tokens that this process did not issue.    *)
(***************************************************************************)
\* 0.3 (the default) and 1.5 (a misconfigured process)
EnvFailureRates == {Float(FALSE, Big(0, 19660, 52428, 52428, 52224)),
                    Float(FALSE, Big(1, 32768, 0, 0, 0))}
\* "a.A", "a /", " "
UploadPaths == {<<97, 46, 65>>, <<97, 32, 47>>, <<32>>}
ServiceClockSteps == {300, 700}

ForeignObject(ver, kb_id, rp) ==
    Token("object", JObject(JNum(PyNat(ver)), JStr(kb_id), JStr(rp), JNum(PyNat(0)),
                            JNum(PyInt(FALSE, UINT64_MAX))))

ForeignTokens ==
    {Token("not_base64", <<>>),                 \* not base64 at all
     Token("not_object", <<>>),                 \* base64 of the JSON text 1
     ForeignObject(1, <<120>>, <<97>>),         \* a token of knowledge base "x"
     ForeignObject(2, <<107, 98>>, <<97>>),     \* a token of another version
     ForeignObject(1, <<107, 98>>, <<>>)}       \* a token whose path is ""

KnownTokens == ForeignTokens \cup (IF s_upload.ok THEN {s_upload.val.resource_id} ELSE {})

RECURSIVE SeqsUpTo(_, _)
SeqsUpTo(S, n) ==
    IF n = 0 THEN {<<>>}
    ELSE LET shorter == SeqsUpTo(S, n - 1)
         IN  shorter \cup {Append(q, x) : q \in {r \in shorter : Len(r) = n - 1}, x \in S}

SInit ==
    /\ s_env_seed \in {0}
    /\ s_env_failure_rate \in EnvFailureRates
    /\ s_now = 0
    /\ s_ticks = 0
    /\ s_upload_kb_id = <<>>
    /\ s_upload = NotCalled
    /\ s_kb_id = <<>>
    /\ s_ids = <<>>
    /\ s_children = NotCalled

\* The handlers run to completion: while a response is on its way to the
\* client nothing else happens in the process.
Tick(step) ==
    /\ s_children = NotCalled
    /\ s_ticks < MaxTicks
    /\ s_now' = s_now + step
    /\ s_ticks' = s_ticks + 1
    /\ UNCHANGED <<s_env_seed, s_env_failure_rate, s_upload_kb_id, s_upload, s_kb_id, s_ids,
                   s_children>>
    /\ UNCHANGED <<nvars, tvars, cvars, mvars, hvars, kvars, pvars, rvars>>

Upload(kb_id, resource_path) ==
    /\ s_children = NotCalled
    /\ s_upload = NotCalled
    /\ s_upload_kb_id' = kb_id
    /\ s_upload' = upload_resource(kb_id, resource_path, s_now, s_env_seed)
    /\ UNCHANGED <<s_env_seed, s_env_failure_rate, s_now, s_ticks, s_kb_id, s_ids,
                   s_children>>
    /\ UNCHANGED <<nvars, tvars, cvars, mvars, hvars, kvars, pvars, rvars>>

ListChildren(kb_id, ids) ==
    /\ s_children = NotCalled
    /\ s_kb_id' = kb_id
    /\ s_ids' = ids
    /\ s_children' = list_children(kb_id, ids, s_now, s_env_failure_rate)
    /\ UNCHANGED <<s_env_seed, s_env_failure_rate, s_now, s_ticks, s_upload_kb_id, s_upload>>
    /\ UNCHANGED <<nvars, tvars, cvars, mvars, hvars, kvars, pvars, rvars>>

\* the response of list_children has been sent; nothing of it stays behind
Respond ==
    /\ s_children # NotCalled
    /\ s_kb_id' = <<>>
    /\ s_ids' = <<>>
    /\ s_children' = NotCalled
    /\ UNCHANGED <<s_env_seed, s_env_failure_rate, s_now, s_ticks, s_upload_kb_id, s_upload>>
    /\ UNCHANGED <<nvars, tvars, cvars, mvars, hvars, kvars, pvars, rvars>>

SNext ==
    \/ \E step \in ServiceClockSteps : Tick(step)
    \/ \E kb_id \in KbIds, resource_path \in UploadPaths : Upload(kb_id, resource_path)
    \/ \E kb_id \in KbIds, ids \in SeqsUpTo(KnownTokens, MaxIds) : ListChildren(kb_id, ids)
    \/ Respond

ServiceInit == SInit /\ NIdle /\ TIdle /\ CIdle /\ MIdle /\ HIdle /\ KIdle /\ PIdle /\ RIdle

SpecService == ServiceInit /\ [][SNext]_vars

\* a list_children call has been made and FAILURE_RATE is a rate
Asked == s_children # NotCalled /\ get_failure_rate_from_env(s_env_failure_rate).ok

\* C4: list_children of a non-empty list of ids returns one item per id, in
\* the order of the request; an id that does not decode gets an item with
\* status error and the code and message of the decode error, and the other
\* ids of the batch still get their items.
C4_BatchIsolation ==
    (Asked /\ s_ids # <<>>) =>
        /\ s_children.ok
        /\ Len(s_children.val) = Len(s_ids)
        /\ \A i \in 1..Len(s_ids) :
              LET payload == decode_resource_token(s_ids[i])
                  item == s_children.val[i]
              IN  /\ item.resource_id = s_ids[i]
                  /\ ~payload.ok =>
                        /\ item.status = "error"
                        /\ item.error_code = ErrorCode(payload.exc)
                        /\ item.error_message = payload.msg

\* the item list_children returns for the single id tok at time now
ItemAt(kb_id, tok, now) == list_children(kb_id, <<tok>>, now, s_env_failure_rate).val[1]

\* C19: when upload_resource succeeds it returns status pending and a
\* resource_id that decodes to the kb_id of the request, the resource_path of
\* the response and the created_at of the response; asking for that token at
\* the time created_at gives pending.
C19_UploadMatchesToken ==
    s_upload.ok =>
        /\ s_upload.val.status = "pending"
        /\ decode_resource_token(s_upload.val.resource_id).ok
        /\ decode_resource_token(s_upload.val.resource_id).val.kb_id = s_upload_kb_id
        /\ decode_resource_token(s_upload.val.resource_id).val.rp
               = s_upload.val.resource_path
        /\ decode_resource_token(s_upload.val.resource_id).val.ca_ms
               = s_upload.val.created_at
        /\ get_failure_rate_from_env(s_env_failure_rate).ok =>
               ItemAt(s_upload_kb_id, s_upload.val.resource_id,
                      s_upload.val.created_at).status = "pending"

\* C19 without the path: the other fields of the response match the token
C19_ButForThePath ==
    s_upload.ok =>
        /\ s_upload.val.status = "pending"
        /\ decode_resource_token(s_upload.val.resource_id).ok
        /\ decode_resource_token(s_upload.val.resource_id).val.kb_id = s_upload_kb_id
        /\ decode_resource_token(s_upload.val.resource_id).val.ca_ms
               = s_upload.val.created_at
        /\ get_failure_rate_from_env(s_env_failure_rate).ok =>
               ItemAt(s_upload_kb_id, s_upload.val.resource_id,
                      s_upload.val.created_at).status = "pending"

\* the token decodes and belongs to another knowledge base than kb_id
Mismatch(kb_id, tok) ==
    decode_resource_token(tok).ok /\ decode_resource_token(tok).val.kb_id # kb_id

\* C20: for a token that decodes but belongs to another knowledge base than
\* the one asked for, list_children returns the item with status error and
\* error_code kb_mismatch; but for updated_at the item is the same at every
\* query time, whatever compute_status would say at that time.
C20_KbMismatch ==
    (Asked /\ s_children.ok) =>
        \A i \in 1..Len(s_ids) :
            Mismatch(s_kb_id, s_ids[i]) =>
                s_children.val[i] =
                    Item(s_ids[i], decode_resource_token(s_ids[i]).val.rp, "error", s_now,
                         "kb_mismatch", "Token belongs to a different knowledge base")

\* the uploaded token is asked for under the other knowledge base, at a time
\* when its status under its own knowledge base is terminal
C20_Witness ==
    /\ Asked
    /\ s_children.ok
    /\ s_upload.ok
    /\ s_ids = <<s_upload.val.resource_id>>
    /\ s_kb_id # s_upload_kb_id
    /\ s_now >= s_upload.val.created_at + PARSED_MS
    /\ s_children.val[1].error_code = "kb_mismatch"

(***************************************************************************)
(* SpecHttp: GET /knowledge_bases/{kb_id}/resources/children.  ids is a    *)
(* required query parameter, so the handler runs with at least one value;  *)
(* a value may be a comma-separated list.                                  *)
(***************************************************************************)
\* the token of "a" in knowledge base "kb", created at 0 with seed 0
IssuedTokenChars == encode_resource_token_text(<<107, 98>>, <<97>>, 0, 0).val

\* "", " ", "a"
ShortPieces == {<<>>, <<32>>, <<97>>}
\* and an issued token, alone and between blanks
Pieces == ShortPieces \cup {IssuedTokenChars, <<32>> \o IssuedTokenChars \o <<32>>}

\* the strings of 1..n pieces of P joined by commas
RECURSIVE Joined(_, _)
Joined(P, n) ==
    IF n = 1 THEN P
    ELSE Joined(P, n - 1) \cup {r \o <<44>> \o p : r \in Joined(P, n - 1), p \in P}

\* one value, or two of which the second is "", "," or an issued token
Queries ==
    {<<r>> : r \in Joined(Pieces, MaxPieces)}
        \cup {<<r, p>> : r \in Pieces \cup Joined(ShortPieces, MaxPieces),
                        p \in {<<>>, <<44>>, IssuedTokenChars}}

HttpClock == {0, 1000}

HInit ==
    /\ h_env_failure_rate \in EnvFailureRates
    /\ h_now \in HttpClock
    /\ h_kb_id = <<>>
    /\ h_query = <<>>
    /\ h_ids = <<>>
    /\ h_children = NotCalled
    /\ h_response = NotCalled

\* the handler runs to completion
MonitorChildren(kb_id, ids) ==
    /\ h_response = NotCalled
    /\ h_kb_id' = kb_id
    /\ h_query' = ids
    /\ h_ids' = QueryIds(ids)
    /\ h_children' = list_children(kb_id, ReadIds(QueryIds(ids)), h_now, h_env_failure_rate)
    /\ h_response' = monitor_children(kb_id, ids, h_now, h_env_failure_rate)
    /\ UNCHANGED <<h_env_failure_rate, h_now>>
    /\ UNCHANGED <<nvars, tvars, cvars, svars, mvars, kvars, pvars, rvars>>

\* the response has been sent; nothing of it stays behind
Sent ==
    /\ h_response # NotCalled
    /\ h_kb_id' = <<>>
    /\ h_query' = <<>>
    /\ h_ids' = <<>>
    /\ h_children' = NotCalled
    /\ h_response' = NotCalled
    /\ UNCHANGED <<h_env_failure_rate, h_now>>
    /\ UNCHANGED <<nvars, tvars, cvars, svars, mvars, kvars, pvars, rvars>>

HNext ==
    \/ \E kb_id \in KbIds, ids \in Queries : MonitorChildren(kb_id, ids)
    \/ Sent

HttpInit == HInit /\ NIdle /\ TIdle /\ CIdle /\ SIdle /\ MIdle /\ KIdle /\ PIdle /\ RIdle

SpecHttp == HttpInit /\ [][HNext]_vars

MissingIds == Raise("ValueError", "missing_ids")

\* the query is one value with a comma in it and nothing in it but commas
\* and whitespace
OnlySeparators(query) ==
    /\ Len(query) = 1
    /\ HasComma(query[1])
    /\ \A i \in 1..Len(query[1]) : query[1][i] = 44 \/ IsSpace(query[1][i])

\* C21: list_children fails with ValueError("missing_ids") exactly when it
\* is given no ids, and then the request is answered with the error
\* missing_ids and no items; a comma-separated value that holds only commas
\* and whitespace gives no ids; a request that gives at least one id is
\* never answered with missing_ids.
C21_MissingIds ==
    (h_response # NotCalled) =>
        /\ (h_ids = <<>>) <=> (h_children = MissingIds)
        /\ (h_ids = <<>>) <=>
               h_response = HTTPException(400, "missing_ids",
                                          "At least one id must be provided")
        /\ OnlySeparators(h_query) => h_ids = <<>>
        /\ (h_ids # <<>> /\ ~h_response.ok) =>
               /\ h_response.exc # "HTTPException"
               /\ h_response.msg # "missing_ids"

\* the request ?ids=%20, (a blank and a comma) has been answered
C21_Witness ==
    /\ h_query = <<(<<32, 44>>)>>
    /\ h_ids = <<>>
    /\ ~h_response.ok
    /\ h_response.exc = "HTTPException"
    /\ h_response.error_code = "missing_ids"

(***************************************************************************)
(* SpecConcurrent: several tasks of one process call the functions of the  *)
(* core at the same time.  A call keeps its arguments and its locals in a  *)
(* frame of its own; the statements of different calls interleave.  The    *)
(* modules hold constants only (TOKEN_VERSION, _UINT64_MAX, PENDING_MS,    *)
(* PARSED_MS, the compiled _VALID_PATH_RE), which no statement assigns.    *)
(***************************************************************************)
Tasks == 1..MaxTasks

NormalizeCall(path) == [op |-> "normalize_resource_path", path |-> path]
DeriveSaltCall(seed, kb_id, resource_path) ==
    [op |-> "derive_salt", seed |-> seed, kb_id |-> kb_id, resource_path |-> resource_path]
EncodeCall(kb_id, resource_path, created_at_ms, seed) ==
    [op |-> "encode_resource_token", kb_id |-> kb_id, resource_path |-> resource_path,
     created_at_ms |-> created_at_ms, seed |-> seed]
DecodeCall(token) == [op |-> "decode_resource_token", token |-> token]
ComputeStatusCall(created_at_ms, now_ms, salt, failure_rate) ==
    [op |-> "compute_status", created_at_ms |-> created_at_ms, now_ms |-> now_ms,
     salt |-> salt, failure_rate |-> failure_rate]

\* " ./A.B", "/"
ConcurrentPaths == {<<32, 46, 47, 65, 46, 66>>, <<47>>}
ConcurrentTokens ==
    {ForeignObject(1, <<120>>, <<>>),
     encode_resource_token(<<107, 98>>, <<97>>, 0, 42).val}
ConcurrentNows == {500, 1500}

CallsOfCore ==
    {NormalizeCall(p) : p \in ConcurrentPaths}
    \cup {DeriveSaltCall(seed, <<107, 98>>, <<97>>) : seed \in Seeds}
    \cup {EncodeCall(<<107, 98>>, p, 0, 42) : p \in ConcurrentPaths}
    \cup {DecodeCall(token) : token \in ConcurrentTokens}
    \cup {ComputeStatusCall(0, now, UINT64_MAX, Float(FALSE, Big(1, 0, 0, 0, 0))) :
              now \in ConcurrentNows}

NoCall == [op |-> "none"]
Frame(pc, val) == [pc |-> pc, val |-> val]
NoFrame == Frame("none", <<>>)
\* the frame of a call that has come to its return or raise
Done(result) == Frame("done", result)

\* encode_resource_token, one statement at a time:
\*   rp = normalize_resource_path(resource_path)
\*   salt = derive_salt(seed, kb_id, rp)
\*   payload = TokenPayload(...); return base64 of the JSON text
EncodeStep(call, frame) ==
    IF frame.pc = "entered"
    THEN LET rp == normalize_resource_path(call.resource_path)
         IN  IF rp.ok THEN Frame("normalized", [rp |-> rp.val]) ELSE Done(rp)
    ELSE IF frame.pc = "normalized"
    THEN Frame("salted", [rp |-> frame.val.rp,
                          salt |-> derive_salt(call.seed, call.kb_id, frame.val.rp)])
    ELSE Done(Ok(Serialize(Payload(TOKEN_VERSION, call.kb_id, frame.val.rp,
                                   call.created_at_ms, frame.val.salt))))

\* decode_resource_token, in two parts: up to payload = TokenPayload(**data),
\* and the checks of the payload
DecodeStep(call, frame) ==
    IF frame.pc = "entered" /\ call.token.layer = "object"
    THEN Frame("validated", TokenPayload(call.token.obj))
    ELSE IF frame.pc = "entered"
    THEN Done(decode_resource_token(call.token))
    ELSE Done(DecodedPayload(frame.val))

\* the next statement of the call, on its own frame
NextFrame(call, frame) ==
    CASE call.op = "normalize_resource_path" ->
             Done(normalize_resource_path(call.path))
      [] call.op = "derive_salt" ->
             Done(Ok(derive_salt(call.seed, call.kb_id, call.resource_path)))
      [] call.op = "encode_resource_token" -> EncodeStep(call, frame)
      [] call.op = "decode_resource_token" -> DecodeStep(call, frame)
      [] call.op = "compute_status" ->
             Done(compute_status(call.created_at_ms, call.now_ms, call.salt,
                                 call.failure_rate))

KInit ==
    /\ k_call = [t \in Tasks |-> NoCall]
    /\ k_frame = [t \in Tasks |-> NoFrame]
    /\ k_result = [t \in Tasks |-> NotCalled]
    /\ k_calls = 0

\* task t enters a function of the core
Enter(t, call) ==
    /\ k_call[t] = NoCall
    /\ k_calls < MaxEntered
    /\ k_call' = [k_call EXCEPT ![t] = call]
    /\ k_frame' = [k_frame EXCEPT ![t] = Frame("entered", <<>>)]
    /\ k_result' = [k_result EXCEPT ![t] = NotCalled]
    /\ k_calls' = k_calls + 1
    /\ UNCHANGED <<nvars, tvars, cvars, svars, mvars, hvars, pvars, rvars>>

\* task t executes its next statement
Step(t) ==
    /\ k_call[t] # NoCall
    /\ k_frame[t].pc \notin {"none", "done"}
    /\ k_frame' = [k_frame EXCEPT ![t] = NextFrame(k_call[t], k_frame[t])]
    /\ UNCHANGED <<k_call, k_result, k_calls>>
    /\ UNCHANGED <<nvars, tvars, cvars, svars, mvars, hvars, pvars, rvars>>

\* the call of task t returns or raises; its frame is gone
Leave(t) ==
    /\ k_frame[t].pc = "done"
    /\ k_result' = [k_result EXCEPT ![t] = k_frame[t].val]
    /\ k_frame' = [k_frame EXCEPT ![t] = NoFrame]
    /\ UNCHANGED <<k_call, k_calls>>
    /\ UNCHANGED <<nvars, tvars, cvars, svars, mvars, hvars, pvars, rvars>>

\* task t has used the result and is free for another call
Forget(t) ==
    /\ k_call[t] # NoCall
    /\ k_frame[t] = NoFrame
    /\ k_call' = [k_call EXCEPT ![t] = NoCall]
    /\ k_result' = [k_result EXCEPT ![t] = NotCalled]
    /\ UNCHANGED <<k_frame, k_calls>>
    /\ UNCHANGED <<nvars, tvars, cvars, svars, mvars, hvars, pvars, rvars>>

KNext ==
    \/ \E t \in Tasks, call \in CallsOfCore : Enter(t, call)
    \/ \E t \in Tasks : Step(t)
    \/ \E t \in Tasks : Leave(t)
    \/ \E t \in Tasks : Forget(t)

ConcurrentInit == KInit /\ NIdle /\ TIdle /\ CIdle /\ SIdle /\ MIdle /\ HIdle /\ PIdle /\ RIdle

SpecConcurrent == ConcurrentInit /\ [][KNext]_vars

\* what the call returns or raises when nothing else runs
Alone(call) ==
    CASE call.op = "normalize_resource_path" -> normalize_resource_path(call.path)
      [] call.op = "derive_salt" ->
             Ok(derive_salt(call.seed, call.kb_id, call.resource_path))
      [] call.op = "encode_resource_token" ->
             encode_resource_token(call.kb_id, call.resource_path, call.created_at_ms,
                                   call.seed)
      [] call.op = "decode_resource_token" -> decode_resource_token(call.token)
      [] call.op = "compute_status" ->
             compute_status(call.created_at_ms, call.now_ms, call.salt,
                            call.failure_rate)

Finished(t) == k_call[t] # NoCall /\ k_frame[t] = NoFrame

PollKb == <<107, 98>>
PollTokens ==
    {encode_resource_token(PollKb, <<97>>, 0, 0).val,   \* the uploaded resource
     Token("not_base64", <<>>),                        \* not base64 at all
     ForeignObject(1, <<120>>, <<97>>),                \* of knowledge base "x"
     ForeignObject(1, PollKb, <<>>)}                   \* a token whose path is ""
PollIntervals == {250, 800}
PollTimeouts == {500, 1200, 2500}
SlowSteps == {300}

PInit ==
    /\ p_env_failure_rate \in EnvFailureRates
    /\ p_now = 0
    /\ p_tokens \in SeqsUpTo(PollTokens, MaxPollTokens)
    /\ p_poll_interval \in PollIntervals
    /\ p_timeout \in PollTimeouts
    /\ p_started = 0
    /\ p_terminal_at = <<>>
    /\ p_last_items = <<>>
    /\ p_history = <<>>
    /\ p_waits = 0
    /\ p_result = NotCalled
    /\ p_pc = "check"

\* if time.monotonic() - started > timeout_s: break
CheckTimeout ==
    /\ p_pc = "check"
    /\ IF p_now - p_started > p_timeout
       THEN /\ p_pc' = "returned"
            /\ p_result' = PollResult(p_last_items, p_terminal_at)
       ELSE /\ p_pc' = "poll"
            /\ UNCHANGED p_result
    /\ UNCHANGED <<p_env_failure_rate, p_now, p_tokens, p_poll_interval, p_timeout,
                   p_started, p_terminal_at, p_last_items, p_history, p_waits>>
    /\ UNCHANGED <<nvars, tvars, cvars, svars, mvars, hvars, kvars, rvars>>

\* the request is on its way for a while before the service reads its clock
Slow(step) ==
    /\ p_pc = "poll"
    /\ p_waits < MaxWaits
    /\ p_now' = p_now + step
    /\ p_waits' = p_waits + 1
    /\ UNCHANGED <<p_env_failure_rate, p_tokens, p_poll_interval, p_timeout, p_started,
                   p_terminal_at, p_last_items, p_history, p_result, p_pc>>
    /\ UNCHANGED <<nvars, tvars, cvars, svars, mvars, hvars, kvars, rvars>>

\* items = await poll_children(...) up to `if len(terminal_at) == len(tokens): break`
Poll ==
    /\ p_pc = "poll"
    /\ LET items == poll_children(PollKb, p_tokens, p_now, p_env_failure_rate)
       IN  IF ~items.ok
           THEN /\ p_pc' = "raised"
                /\ p_result' = items
                /\ UNCHANGED <<p_terminal_at, p_last_items, p_history>>
           ELSE /\ p_last_items' = items.val
                /\ p_history' = Append(p_history, items.val)
                /\ p_terminal_at' = RecordTerminal(items.val, p_terminal_at)
                /\ IF Cardinality(DOMAIN p_terminal_at') = Len(p_tokens)
                   THEN /\ p_pc' = "returned"
                        /\ p_result' = PollResult(items.val, p_terminal_at')
                   ELSE /\ p_pc' = "sleep"
                        /\ UNCHANGED p_result
    /\ UNCHANGED <<p_env_failure_rate, p_now, p_tokens, p_poll_interval, p_timeout,
                   p_started, p_waits>>
    /\ UNCHANGED <<nvars, tvars, cvars, svars, mvars, hvars, kvars, rvars>>

\* await asyncio.sleep(poll_interval_s)
Sleep ==
    /\ p_pc = "sleep"
    /\ p_now' = p_now + p_poll_interval
    /\ p_pc' = "check"
    /\ UNCHANGED <<p_env_failure_rate, p_tokens, p_poll_interval, p_timeout, p_started,
                   p_terminal_at, p_last_items, p_history, p_waits, p_result>>
    /\ UNCHANGED <<nvars, tvars, cvars, svars, mvars, hvars, kvars, rvars>>

PNext ==
    \/ CheckTimeout
    \/ \E step \in SlowSteps : Slow(step)
    \/ Poll
    \/ Sleep

PollInit == PInit /\ NIdle /\ TIdle /\ CIdle /\ SIdle /\ MIdle /\ HIdle /\ KIdle /\ RIdle

SpecPoll == PollInit /\ [][PNext]_vars

\* The runner is a running program and the service answers every request:
\* the timeout is checked, the sleep ends, and the loop does not stay at
\* `await poll_children(...)` for ever.
SpecPollFair ==
    SpecPoll /\ WF_vars(CheckTimeout) /\ WF_vars(Sleep) /\ []<>(p_pc # "poll")

\* the polls of the history in which an item of rid is indexed or error
TerminalPolls(rid) ==
    {i \in 1..Len(p_history) :
        \E j \in 1..Len(p_history[i]) :
            /\ p_history[i][j].resource_id = rid
            /\ p_history[i][j].status \in {"indexed", "error"}}
FirstTerminalPoll(rid) ==
    CHOOSE i \in TerminalPolls(rid) : \A k \in TerminalPolls(rid) : i <= k
\* the updated_at of the items of rid in poll i
UpdatedAtIn(rid, i) ==
    {p_history[i][j].updated_at : j \in {k \in 1..Len(p_history[i]) :
                                             p_history[i][k].resource_id = rid}}
PolledIds ==
    UNION {{p_history[i][j].resource_id : j \in 1..Len(p_history[i])} :
               i \in 1..Len(p_history)}

\* C24: terminal_at holds, for exactly the tokens that some poll so far
\* reported as indexed or error, the updated_at of the first such poll (so
\* no later poll changes or removes an entry); last_items are the items of
\* the last poll performed; and _poll_until_terminal returns only when every
\* token has an entry or the timeout has elapsed.
C24_Bookkeeping ==
    /\ DOMAIN p_terminal_at = {rid \in PolledIds : TerminalPolls(rid) # {}}
    /\ \A rid \in DOMAIN p_terminal_at :
           UpdatedAtIn(rid, FirstTerminalPoll(rid)) = {p_terminal_at[rid]}
    /\ p_last_items = IF p_history = <<>> THEN <<>> ELSE p_history[Len(p_history)]
    /\ (p_pc = "returned") =>
           /\ p_result = PollResult(p_last_items, p_terminal_at)
           /\ \/ \A i \in 1..Len(p_tokens) : p_tokens[i] \in DOMAIN p_terminal_at
              \/ p_now - p_started > p_timeout

\* the loop has returned after several polls with an entry for each of two
\* tokens, of which one became terminal in an earlier poll than the other
C24_Witness ==
    /\ p_pc = "returned"
    /\ Len(p_history) >= 2
    /\ Len(p_tokens) = 2
    /\ \A i \in 1..2 : p_tokens[i] \in DOMAIN p_terminal_at
    /\ p_terminal_at[p_tokens[1]] < p_terminal_at[p_tokens[2]]
    /\ p_terminal_at[p_tokens[2]] = p_now

\* decode_resource_token(tok) raises an exception that is no TokenError
Unanswerable(tok) ==
    ~decode_resource_token(tok).ok /\ ~IsTokenError(decode_resource_token(tok).exc)

\* FAILURE_RATE is a rate, there is a token to poll, and the timeout leaves
\* room for a poll at or after PARSED_MS: once the clock has passed PARSED_MS
\* the next check of the timeout comes within one poll interval and the
\* slow requests
RoomForTerminalPoll ==
    /\ get_failure_rate_from_env(p_env_failure_rate).ok
    /\ p_tokens # <<>>
    /\ \A step \in SlowSteps :
           p_timeout >= PARSED_MS + p_poll_interval + MaxWaits * step

EveryTokenTerminal ==
    /\ p_pc = "returned"
    /\ \A i \in 1..Len(p_tokens) : p_tokens[i] \in DOMAIN p_terminal_at

\* C23: whatever the tokens, with a timeout that leaves room for a poll at
\* or after 1000 ms from their creation, _poll_until_terminal eventually
\* returns with a terminal_at entry for every token: polled again and again
\* while the clock advances, every id comes to status indexed or error.
C23_EventuallyTerminal == RoomForTerminalPoll => <>EveryTokenTerminal

\* C23 for tokens that decode or fail to decode with a TokenError
C23_AnswerableEventuallyTerminal ==
    (RoomForTerminalPoll /\ \A i \in 1..Len(p_tokens) : ~Unanswerable(p_tokens[i]))
        => <>EveryTokenTerminal

\* C23 for the timeouts above PARSED_MS, answerable tokens
C23_AnyLongerTimeout ==
    (/\ get_failure_rate_from_env(p_env_failure_rate).ok
     /\ p_tokens # <<>>
     /\ p_timeout > PARSED_MS
     /\ \A i \in 1..Len(p_tokens) : ~Unanswerable(p_tokens[i]))
        => <>EveryTokenTerminal

(***************************************************************************)
(* SpecRetry: one call of create_kb, upload_one or poll_children of the    *)
(* runner client.  Every request ends in one of four ways, chosen by the   *)
(* network and the service.                                                *)
(***************************************************************************)
ClientOps == {"create_kb", "upload_one", "poll_children"}
\* the connection fails; the status is 4xx or 5xx; the body lacks the key;
\* the request succeeds
RequestOutcomes == {"ConnectError", "HTTPStatusError", "KeyError", "ok"}
\* "a.A", and a file name with e-acute
ClientPaths == {<<97, 46, 65>>, <<233>>}

RInit ==
    /\ r_op \in ClientOps
    /\ r_path \in IF r_op = "upload_one" THEN ClientPaths ELSE {<<>>}
    /\ r_retries \in 0..MaxRetries
    /\ r_attempt = 0
    /\ r_outcomes = <<>>
    /\ r_last_err = "None"
    /\ r_result = NotCalled
    /\ r_pc = "start"

\* the statements before the loop: upload_one normalizes the path and reads
\* the file; the others only set last_err
Prepare(readable) ==
    /\ r_pc = "start"
    /\ IF r_op = "upload_one" /\ ~normalize_resource_path(r_path).ok
       THEN /\ r_pc' = "raised"
            /\ r_result' = normalize_resource_path(r_path)
       ELSE IF r_op = "upload_one" /\ ~readable
       THEN /\ r_pc' = "raised"
            /\ r_result' = Raise("OSError", "read_bytes")
       ELSE /\ r_pc' = "loop"
            /\ UNCHANGED r_result
    /\ UNCHANGED <<r_op, r_path, r_retries, r_attempt, r_outcomes, r_last_err>>
    /\ UNCHANGED <<nvars, tvars, cvars, svars, mvars, hvars, kvars, pvars>>

\* one iteration of the loop: a request is issued; its result is returned,
\* or its failure is kept in last_err
Attempt(outcome) ==
    /\ r_pc = "loop"
    /\ r_attempt < r_retries
    /\ r_outcomes' = Append(r_outcomes, outcome)
    /\ IF outcome = "ok"
       THEN /\ r_pc' = "returned"
            /\ r_result' = Ok([request |-> Len(r_outcomes) + 1])
            /\ UNCHANGED <<r_attempt, r_last_err>>
       ELSE /\ r_last_err' = outcome
            /\ r_attempt' = NextAttempt(r_attempt)
            /\ UNCHANGED <<r_pc, r_result>>
    /\ UNCHANGED <<r_op, r_path, r_retries>>
    /\ UNCHANGED <<nvars, tvars, cvars, svars, mvars, hvars, kvars, pvars>>

\* the loop is exhausted: raise CreateKBError / UploadError / PollError
GiveUp ==
    /\ r_pc = "loop"
    /\ r_attempt >= r_retries
    /\ r_pc' = "raised"
    /\ r_result' = Raise(RetryError(r_op), RetryMessage(r_op, r_last_err))
    /\ UNCHANGED <<r_op, r_path, r_retries, r_attempt, r_outcomes, r_last_err>>
    /\ UNCHANGED <<nvars, tvars, cvars, svars, mvars, hvars, kvars, pvars>>

RNext ==
    \/ \E readable \in BOOLEAN : Prepare(readable)
    \/ \E outcome \in RequestOutcomes : Attempt(outcome)
    \/ GiveUp

RetryInit == RInit /\ NIdle /\ TIdle /\ CIdle /\ SIdle /\ MIdle /\ HIdle /\ KIdle /\ PIdle

SpecRetry == RetryInit /\ [][RNext]_vars

\* the client is a running program: a step that can be taken is taken
SpecRetryFair == SpecRetry /\ WF_vars(RNext)

Failed(i) == r_outcomes[i] # "ok"

RetrySafe ==
    /\ Len(r_outcomes) <= r_retries
    /\ \A i \in 1..(Len(r_outcomes) - 1) : Failed(i)
    /\ (r_pc = "returned") =>
           /\ r_outcomes # <<>>
           /\ ~Failed(Len(r_outcomes))
           /\ r_result = Ok([request |-> Len(r_outcomes)])
    /\ (r_pc # "returned") => \A i \in 1..Len(r_outcomes) : Failed(i)
    /\ (r_pc = "raised" /\ r_outcomes # <<>>) =>
           /\ Len(r_outcomes) = r_retries
           /\ r_result.exc = RetryError(r_op)
    /\ (r_pc = "raised" /\ r_result.exc # RetryError(r_op)) =>
           /\ r_op = "upload_one"
           /\ r_outcomes = <<>>

RetryEnded == r_pc \in {"returned", "raised"}

\* C25: create_kb, upload_one and poll_children issue at most `retries`
\* requests and none after a successful one; they return only the result of
\* a successful request, which is then the first; when all `retries`
\* requests have failed they raise CreateKBError, UploadError or PollError
\* respectively; and every call ends.  (upload_one can also fail before its
\* first request, in normalize_resource_path or read_bytes.)
C25_BoundedRetry == []RetrySafe /\ <>RetryEnded

\* every one of three requests has failed and PollError was raised
C25_Witness ==
    /\ r_op = "poll_children"
    /\ r_retries = 3
    /\ Len(r_outcomes) = 3
    /\ r_pc = "raised"
    /\ r_result = Raise("PollError", "KeyError")

\* the second request of upload_one succeeded and its result was returned
C25_WitnessSuccess ==
    /\ r_op = "upload_one"
    /\ Len(r_outcomes) = 2
    /\ r_pc = "returned"
    /\ r_result = Ok([request |-> 2])

====
